---- MODULE Spec2Model ----
(***************************************************************************)
(* Accessory sales / inventory summaries: the row classification done by   *)
(* the two warehouse queries (scripts/sales_aggregation.py and             *)
(* scripts/inventory_aggregation.py) and the Python aggregators that fold  *)
(* the query results into the (brand, item tab, month, channel, type)      *)
(* mapping, then the entry points of scripts/preprocess_sales.py and       *)
(* scripts/preprocess_inventory.py: conversion to the JSON structure, the  *)
(* merge of the frozen snapshot, the output files and the merge mode;     *)
(* and execute_query_batch of scripts/snowflake_utils.py.                  *)
(*                                                                         *)
(* Text values are sequences of one-character strings, so that TRIM, LEFT, *)
(* SUBSTR, REGEXP_SUBSTR and the string comparisons of the source are      *)
(* computed character by character.  SQL NULL is the value NULL for text   *)
(* and NoNum for numbers; a comparison with NULL is not true.              *)
(***************************************************************************)
EXTENDS Integers, Sequences, FiniteSets, TLC

(* ---------------------------------------------------------------------- *)
(* Bounds of the model                                                     *)
(* ---------------------------------------------------------------------- *)
FirstYear == 2023
LastYear == 2027
MaxRows == 2

(* ---------------------------------------------------------------------- *)
(* Text and number primitives                                              *)
(* ---------------------------------------------------------------------- *)
NULL == <<"NULL">>
NoNum == -1

DigitChars == <<"0", "1", "2", "3", "4", "5", "6", "7", "8", "9">>

IsDigit(c) == \E i \in 1..10 : DigitChars[i] = c

DigitVal(c) == (CHOOSE i \in 1..10 : DigitChars[i] = c) - 1

DigitChar(n) == DigitChars[n + 1]

Min(a, b) == IF a <= b THEN a ELSE b

\* Amounts are floats in the code; the model counts them in halves of a
\* currency unit, which binary floats hold and add exactly.
Scale == 2

\* n whole currency units
Won(n) == n * Scale

\* round(x) of Python 3 for x >= 0: the nearest whole number, a tie going to
\* the even one; the result is again counted in halves
PyRound(x) ==
  LET q == x \div Scale
      r == x % Scale
  IN  IF 2 * r < Scale THEN Won(q)
      ELSE IF 2 * r > Scale THEN Won(q + 1)
      ELSE IF q % 2 = 0 THEN Won(q) ELSE Won(q + 1)

\* character order of the characters the model uses (code points)
Ord(c) ==
  CASE c = " " -> 32
    [] c = "." -> 46
    [] IsDigit(c) -> 48 + DigitVal(c)
    [] c = "A" -> 65 [] c = "B" -> 66 [] c = "C" -> 67 [] c = "D" -> 68
    [] c = "E" -> 69 [] c = "F" -> 70 [] c = "I" -> 73 [] c = "L" -> 76
    [] c = "N" -> 78 [] c = "O" -> 79 [] c = "R" -> 82 [] c = "S" -> 83
    [] c = "T" -> 84 [] c = "U" -> 85 [] c = "X" -> 88
    [] OTHER -> 120

RECURSIVE StrLess(_, _)
\* a < b in the lexicographic order of strings
StrLess(a, b) ==
  IF b = <<>> THEN FALSE
  ELSE IF a = <<>> THEN TRUE
  ELSE IF Head(a) = Head(b) THEN StrLess(Tail(a), Tail(b))
  ELSE Ord(Head(a)) < Ord(Head(b))

StrLeq(a, b) == a = b \/ StrLess(a, b)

RECURSIVE LTrim(_)
LTrim(s) == IF s # <<>> /\ Head(s) = " " THEN LTrim(Tail(s)) ELSE s

RECURSIVE RTrim(_)
RTrim(s) ==
  IF s # <<>> /\ s[Len(s)] = " " THEN RTrim(SubSeq(s, 1, Len(s) - 1)) ELSE s

\* SQL TRIM(s)
TRIM(s) == IF s = NULL THEN NULL ELSE RTrim(LTrim(s))

\* SQL LEFT(s, n)
LEFT(s, n) == IF s = NULL THEN NULL ELSE SubSeq(s, 1, Min(n, Len(s)))

\* SQL SUBSTR(s, pos, len), pos counted from 1
SUBSTR(s, pos, len) ==
  IF s = NULL THEN NULL ELSE SubSeq(s, pos, Min(pos + len - 1, Len(s)))

RECURSIVE DigitsValue(_)
DigitsValue(s) ==
  IF s = <<>> THEN 0
  ELSE 10 * DigitsValue(SubSeq(s, 1, Len(s) - 1)) + DigitVal(s[Len(s)])

\* SQL TRY_TO_NUMBER(s): NULL when s is NULL, empty or not a number
TRY_TO_NUMBER(s) ==
  IF s = NULL \/ s = <<>> THEN NoNum
  ELSE IF \A i \in 1..Len(s) : IsDigit(s[i]) THEN DigitsValue(s)
  ELSE NoNum

\* SQL REGEXP_SUBSTR(s, '\d{2}'): the first match of two adjacent digits
REGEXP_SUBSTR_D2(s) ==
  IF s = NULL THEN NULL
  ELSE LET hits == {i \in 1..(Len(s) - 1) : IsDigit(s[i]) /\ IsDigit(s[i + 1])}
       IN  IF hits = {} THEN NULL
           ELSE LET i == CHOOSE j \in hits : \A k \in hits : j <= k
                IN  SubSeq(s, i, i + 1)

\* SQL a >= b on numbers: true only when both are non-NULL
NumGeq(a, b) == a # NoNum /\ b # NoNum /\ a >= b

FOCUS == <<"F", "O", "C", "U", "S">>
INTRO == <<"I", "N", "T", "R", "O">>
OUTLET == <<"O", "U", "T", "L", "E", "T">>
CARE == <<"C", "A", "R", "E">>
DONE == <<"D", "O", "N", "E">>

(* ---------------------------------------------------------------------- *)
(* Dates                                                                   *)
(* ---------------------------------------------------------------------- *)
Date(y, m, d) == [y |-> y, m |-> m, d |-> d]

IsLeap(y) == (y % 4 = 0 /\ y % 100 # 0) \/ y % 400 = 0

\* calendar.monthrange(year, month)[1]
get_days_in_month(y, m) ==
  IF m = 2 THEN (IF IsLeap(y) THEN 29 ELSE 28)
  ELSE IF m \in {4, 6, 9, 11} THEN 30 ELSE 31

\* TO_CHAR(dt, 'YYYY')
TO_CHAR_YYYY(dt) ==
  << DigitChar(dt.y \div 1000), DigitChar((dt.y \div 100) % 10),
     DigitChar((dt.y \div 10) % 10), DigitChar(dt.y % 10) >>

\* TO_CHAR(dt, 'YYYYMM')
TO_CHAR_YYYYMM(dt) ==
  TO_CHAR_YYYY(dt) \o << DigitChar(dt.m \div 10), DigitChar(dt.m % 10) >>

\* TO_DATE(yymm || '01', 'YYYYMMDD')
TO_DATE_YYYYMM01(yymm) ==
  Date(DigitsValue(SubSeq(yymm, 1, 4)), DigitsValue(SubSeq(yymm, 5, 6)), 1)

\* DATE_TRUNC('QUARTER', dt)
DATE_TRUNC_QUARTER(dt) == Date(dt.y, 3 * ((dt.m - 1) \div 3) + 1, 1)

\* DATEDIFF('month', a, b): calendar-month boundaries crossed from a to b
DATEDIFF_MONTH(a, b) == (b.y * 12 + b.m) - (a.y * 12 + a.m)

(* ---------------------------------------------------------------------- *)
(* Code values.  Codes of the fixed schema (brand, channel, category,      *)
(* classification) are plain strings; NullCode is their SQL NULL.          *)
(* ---------------------------------------------------------------------- *)
NullCode == "NULL"

\* the Hangul literal for "all" used as item tab and as channel bucket
JEONCHE == "JEONCHE"

BRAND_CODE_MAP == [M |-> "MLB", I |-> "MLB KIDS", X |-> "DISCOVERY"]

\* BRAND_CODE_MAP.get(brand_code, brand_code)
BrandName(brand_code) ==
  IF brand_code \in DOMAIN BRAND_CODE_MAP THEN BRAND_CODE_MAP[brand_code]
  ELSE brand_code

\* month_display = f"{month_yyyymm[:4]}.{month_yyyymm[4:6]}"
MonthDisplay(month_yyyymm) ==
  SubSeq(month_yyyymm, 1, Min(4, Len(month_yyyymm))) \o <<".">>
    \o SubSeq(month_yyyymm, 5, Min(6, Len(month_yyyymm)))

(* ---------------------------------------------------------------------- *)
(* Shop master: the derived table d of both queries.  maps is the set of   *)
(* CHN.DW_SHOP_WH_DETAIL rows of one shop_id, each [fr_or_cls, open_dt]    *)
(* with open_dt a yyyymmdd number or NoNum.                                *)
(* ---------------------------------------------------------------------- *)
\* COALESCE(open_dt, '1900-01-01')
CoalesceOpenDt(open_dt) == IF open_dt = NoNum THEN 19000101 ELSE open_dt

\* the fr_or_cls values the row with ROW_NUMBER() = 1 can carry; the LEFT
\* JOIN yields NULL when the shop has no row with a non-NULL fr_or_cls
ShopLatestCls(maps) ==
  LET cands == {r \in maps : r.fr_or_cls # NullCode}
      first == {r \in cands : \A q \in cands :
                  CoalesceOpenDt(r.open_dt) >= CoalesceOpenDt(q.open_dt)}
  IN  IF cands = {} THEN {NullCode} ELSE {r.fr_or_cls : r \in first}

(* ---------------------------------------------------------------------- *)
(* Product master row: [parent_prdt_kind_cd, prdt_kind_nm_en, remark]      *)
(* with remark a sequence of the 15 columns remark1 .. remark15.           *)
(* ---------------------------------------------------------------------- *)

(* ---------------------------------------------------------------------- *)
(* Sales query (build_sales_aggregation_query)                             *)
(* A sale row s is [sale_dt, shop, prdt, brd_cd, sesn, tag_amt], shop and  *)
(* prdt being the master rows its shop_id and prdt_scs_cd join to.         *)
(* ---------------------------------------------------------------------- *)
\* q_start_dt of the eight branches of remark_normalized
RemarkQStart ==
  << Date(2024, 1, 1), Date(2024, 4, 1), Date(2024, 7, 1), Date(2024, 10, 1),
     Date(2025, 1, 1), Date(2025, 4, 1), Date(2025, 7, 1), Date(2025, 10, 1) >>

\* CTE remark_normalized, restricted to one product
remark_normalized(p) ==
  { [q_start_dt |-> RemarkQStart[i], remark_idx |-> i, op_std |-> p.remark[i]] :
      i \in {j \in 1..Len(RemarkQStart) :
               p.remark[j] # NULL /\ TRIM(p.remark[j]) # <<>>} }

\* CTE sales_with_master: the rows (none or one) that s yields when the
\* shop join selects fr_or_cls
sales_with_master(s, fr_or_cls, start_month, end_month) ==
  IF /\ StrLeq(start_month, TO_CHAR_YYYYMM(s.sale_dt))
     /\ StrLeq(TO_CHAR_YYYYMM(s.sale_dt), end_month)
     /\ s.brd_cd \in {"M", "I", "X"}
     /\ s.prdt.parent_prdt_kind_cd = "A"
     /\ s.prdt.prdt_kind_nm_en \in {"Shoes", "Headwear", "Bag", "Acc_etc"}
     /\ fr_or_cls \in {"FR", "OR"}
  THEN { [sale_dt |-> s.sale_dt,
          sale_ym |-> TO_CHAR_YYYYMM(s.sale_dt),
          prdt |-> s.prdt,
          brd_cd |-> s.brd_cd,
          sesn |-> s.sesn,
          tag_amt |-> s.tag_amt,
          prdt_kind_nm_en |-> s.prdt.prdt_kind_nm_en,
          fr_or_cls |-> fr_or_cls,
          q_start_dt |-> DATE_TRUNC_QUARTER(s.sale_dt),
          row_yy |-> SUBSTR(TO_CHAR_YYYY(s.sale_dt), 3, 2)] }
  ELSE {}

\* CTE sales_with_remark: LEFT JOIN remark_normalized on product and quarter
sales_with_remark(rows) ==
  UNION { LET match == {r \in remark_normalized(s.prdt) :
                          r.q_start_dt = s.q_start_dt}
          IN  IF match = {}
              THEN { [base |-> s, op_std |-> NULL, remark_idx |-> NoNum] }
              ELSE { [base |-> s, op_std |-> r.op_std,
                      remark_idx |-> r.remark_idx] : r \in match }
        : s \in rows }

\* SalesProductType with the remark-year comparison made strict
SalesProductType_StrictYear(op_std, sesn, row_yy) ==
  IF op_std \in {FOCUS, INTRO} THEN "core"
  ELSE IF op_std \in {OUTLET, CARE, DONE} THEN "outlet"
  ELSE IF op_std # NULL /\ op_std \notin {FOCUS, INTRO, OUTLET, CARE, DONE}
  THEN (IF /\ NumGeq(TRY_TO_NUMBER(REGEXP_SUBSTR_D2(op_std)), TRY_TO_NUMBER(row_yy))
           /\ TRY_TO_NUMBER(REGEXP_SUBSTR_D2(op_std)) # TRY_TO_NUMBER(row_yy)
        THEN "core" ELSE "outlet")
  ELSE IF NumGeq(TRY_TO_NUMBER(LEFT(sesn, 2)), TRY_TO_NUMBER(row_yy)) THEN "core"
  ELSE "outlet"

\* SalesProductType with the season comparison made strict
SalesProductType_SeasonStrict(op_std, sesn, row_yy) ==
  IF op_std \in {FOCUS, INTRO} THEN "core"
  ELSE IF op_std \in {OUTLET, CARE, DONE} THEN "outlet"
  ELSE IF op_std # NULL /\ op_std \notin {FOCUS, INTRO, OUTLET, CARE, DONE}
  THEN (IF NumGeq(TRY_TO_NUMBER(REGEXP_SUBSTR_D2(op_std)), TRY_TO_NUMBER(row_yy))
        THEN "core" ELSE "outlet")
  ELSE IF /\ NumGeq(TRY_TO_NUMBER(LEFT(sesn, 2)), TRY_TO_NUMBER(row_yy))
          /\ TRY_TO_NUMBER(LEFT(sesn, 2)) # TRY_TO_NUMBER(row_yy) THEN "core"
  ELSE "outlet"

\* the CASE expression of sales_classified
SalesProductType(op_std, sesn, row_yy) ==
  IF op_std \in {FOCUS, INTRO} THEN "core"
  ELSE IF op_std \in {OUTLET, CARE, DONE} THEN "outlet"
  ELSE IF op_std # NULL /\ op_std \notin {FOCUS, INTRO, OUTLET, CARE, DONE}
  THEN (IF NumGeq(TRY_TO_NUMBER(REGEXP_SUBSTR_D2(op_std)), TRY_TO_NUMBER(row_yy))
        THEN "core" ELSE "outlet")
  ELSE IF NumGeq(TRY_TO_NUMBER(LEFT(sesn, 2)), TRY_TO_NUMBER(row_yy)) THEN "core"
  ELSE "outlet"

\* CTE sales_classified
sales_classified(rows) ==
  { [month |-> r.base.sale_ym,
     brand |-> r.base.brd_cd,
     item_category |-> r.base.prdt_kind_nm_en,
     channel |-> r.base.fr_or_cls,
     product_type |-> SalesProductType(r.op_std, r.base.sesn, r.base.row_yy),
     amount |-> r.base.tag_amt,
     op_std |-> r.op_std,
     remark_idx |-> r.remark_idx,
     row_yy |-> r.base.row_yy] : r \in rows }

\* the classified rows of one sale row
SalesRows(s, fr_or_cls, start_month, end_month) ==
  sales_classified(sales_with_remark(
    sales_with_master(s, fr_or_cls, start_month, end_month)))

(* ---------------------------------------------------------------------- *)
(* Inventory query (build_inventory_aggregation_query)                     *)
(* A stock row st is [yymm, shop, prdt, brd_cd, sesn,                      *)
(* stock_tag_amt_expected, stock_qty_expected].                            *)
(* ---------------------------------------------------------------------- *)
\* FLOOR(DATEDIFF('month', TO_DATE('202312','YYYYMM'), TO_DATE(yymm||'01')) / 3) + 1
RemarkNum(yymm) ==
  (DATEDIFF_MONTH(Date(2023, 12, 1), TO_DATE_YYYYMM01(yymm)) \div 3) + 1

\* CTE stock_with_master
stock_with_master(st, fr_or_cls, start_month, end_month) ==
  IF /\ StrLeq(start_month, st.yymm)
     /\ StrLeq(st.yymm, end_month)
     /\ st.brd_cd \in {"M", "I", "X"}
     /\ st.prdt.parent_prdt_kind_cd = "A"
     /\ st.prdt.prdt_kind_nm_en \in {"Shoes", "Headwear", "Bag", "Acc_etc"}
     /\ fr_or_cls \in {"FR", "OR", "HQ"}
  THEN { [yymm |-> st.yymm,
          prdt |-> st.prdt,
          brd_cd |-> st.brd_cd,
          sesn |-> st.sesn,
          stock_qty_expected |-> st.stock_qty_expected,
          stock_tag_amt_expected |-> st.stock_tag_amt_expected,
          prdt_kind_nm_en |-> st.prdt.prdt_kind_nm_en,
          fr_or_cls |-> fr_or_cls,
          remark_num |-> RemarkNum(st.yymm),
          row_yy |-> SUBSTR(st.yymm, 3, 2)] }
  ELSE {}

\* CTE stock_with_remark: CASE remark_num WHEN i THEN remark<i>, filtered
stock_with_remark(rows) ==
  { [base |-> s,
     op_std |-> IF s.remark_num \in 1..15 THEN s.prdt.remark[s.remark_num]
                ELSE NULL] :
      s \in {r \in rows : r.remark_num >= 1 /\ r.remark_num <= 15} }

\* StockProductType with INTRO missing from the core vocabulary
StockProductType_IntroOmitted(op_std, sesn, row_yy) ==
  IF op_std \in {FOCUS} THEN "core"
  ELSE IF op_std \in {OUTLET, CARE, DONE} THEN "outlet"
  ELSE IF op_std # NULL /\ op_std \notin {FOCUS, INTRO, OUTLET, CARE, DONE}
  THEN (IF NumGeq(TRY_TO_NUMBER(REGEXP_SUBSTR_D2(op_std)), TRY_TO_NUMBER(row_yy))
        THEN "core" ELSE "outlet")
  ELSE IF NumGeq(TRY_TO_NUMBER(LEFT(sesn, 2)), TRY_TO_NUMBER(row_yy)) THEN "core"
  ELSE "outlet"

\* StockProductType with a remark that yields no year passed on to the
\* season-code comparison
StockProductType_FallThrough(op_std, sesn, row_yy) ==
  IF op_std \in {FOCUS, INTRO} THEN "core"
  ELSE IF op_std \in {OUTLET, CARE, DONE} THEN "outlet"
  ELSE IF /\ op_std # NULL /\ op_std \notin {FOCUS, INTRO, OUTLET, CARE, DONE}
          /\ REGEXP_SUBSTR_D2(op_std) # NULL
  THEN (IF NumGeq(TRY_TO_NUMBER(REGEXP_SUBSTR_D2(op_std)), TRY_TO_NUMBER(row_yy))
        THEN "core" ELSE "outlet")
  ELSE IF NumGeq(TRY_TO_NUMBER(LEFT(sesn, 2)), TRY_TO_NUMBER(row_yy)) THEN "core"
  ELSE "outlet"

\* the CASE expression of stock_classified
StockProductType(op_std, sesn, row_yy) ==
  IF op_std \in {FOCUS, INTRO} THEN "core"
  ELSE IF op_std \in {OUTLET, CARE, DONE} THEN "outlet"
  ELSE IF op_std # NULL /\ op_std \notin {FOCUS, INTRO, OUTLET, CARE, DONE}
  THEN (IF NumGeq(TRY_TO_NUMBER(REGEXP_SUBSTR_D2(op_std)), TRY_TO_NUMBER(row_yy))
        THEN "core" ELSE "outlet")
  ELSE IF NumGeq(TRY_TO_NUMBER(LEFT(sesn, 2)), TRY_TO_NUMBER(row_yy)) THEN "core"
  ELSE "outlet"

\* CTE stock_classified
stock_classified(rows) ==
  { [month |-> r.base.yymm,
     brand |-> r.base.brd_cd,
     item_category |-> r.base.prdt_kind_nm_en,
     channel |-> r.base.fr_or_cls,
     product_type |-> StockProductType(r.op_std, r.base.sesn, r.base.row_yy),
     amount |-> r.base.stock_tag_amt_expected,
     qty |-> r.base.stock_qty_expected,
     op_std |-> r.op_std,
     remark_idx |-> r.base.remark_num,
     row_yy |-> r.base.row_yy] : r \in rows }

\* the classified rows of one stock row
StockRows(st, fr_or_cls, start_month, end_month) ==
  stock_classified(stock_with_remark(
    stock_with_master(st, fr_or_cls, start_month, end_month)))

(* ---------------------------------------------------------------------- *)
(* Input data of the model                                                 *)
(* ---------------------------------------------------------------------- *)
Years == FirstYear..LastYear

\* the first and the last day of every month of the modelled years
SaleDates ==
  { dt \in [y : Years, m : 1..12, d : 1..31] :
      dt.d \in {1, get_days_in_month(dt.y, dt.m)} }

StockMonths == { TO_CHAR_YYYYMM(Date(y, m, 1)) : y \in Years, m \in 1..12 }

Text23A == <<"2", "3", "A">>
Text25B == <<"2", "5", "B">>
Text24A == <<"2", "4", "A">>
Text22B == <<"2", "2", "B">>
Text26S == <<"2", "6", "S">>
Text2601 == <<"2", "6", "0", "1">>

\* values found in a remark column
RemarkTexts ==
  { NULL, <<>>, <<" ">>, FOCUS, INTRO, OUTLET, CARE, DONE, Text23A, Text25B,
    <<"N", "E", "W">>, <<"f", "o", "c", "u", "s">>,
    <<"2", "0", "2", "4", "A">>, <<"S", "5", "-", "2", "6">>,
    <<"2", "3", "/", "2", "5">>, Text2601 }

\* a product whose odd remark columns hold a and whose even ones hold b
Product(kind, cat, a, b) ==
  [parent_prdt_kind_cd |-> kind, prdt_kind_nm_en |-> cat,
   remark |-> [i \in 1..15 |-> IF i % 2 = 1 THEN a ELSE b]]

ClassifyProducts ==
  { Product("A", "Shoes", a, b) :
      a \in RemarkTexts, b \in {NULL, FOCUS, Text23A} }

\* values found in a season column
SeasonTexts == { NULL, <<>>, Text24A, Text22B, Text26S, <<"2", "A">> }

ShopFR == { [fr_or_cls |-> "FR", open_dt |-> 20200101] }
ShopOR == { [fr_or_cls |-> "OR", open_dt |-> 20200101] }
ShopHQ == { [fr_or_cls |-> "HQ", open_dt |-> 20200101] }
ShopMoved ==
  { [fr_or_cls |-> "FR", open_dt |-> 20190101],
    [fr_or_cls |-> "OR", open_dt |-> 20210101],
    [fr_or_cls |-> "HQ", open_dt |-> NoNum] }
ShopUnmapped == { [fr_or_cls |-> NullCode, open_dt |-> 20200101] }
\* a shop whose dated mapping carries an open date before 1900-01-01 and
\* whose other mapping has no open date
ShopOld ==
  { [fr_or_cls |-> "FR", open_dt |-> 18991230],
    [fr_or_cls |-> "OR", open_dt |-> NoNum] }
\* a shop with two mappings opened on the same day
ShopTwin ==
  { [fr_or_cls |-> "FR", open_dt |-> 20200101],
    [fr_or_cls |-> "HQ", open_dt |-> 20200101] }

\* the widest period a query is run for in the model
FirstMonth == TO_CHAR_YYYYMM(Date(FirstYear, 1, 1))
LastMonth == TO_CHAR_YYYYMM(Date(LastYear, 12, 1))

(* ---------------------------------------------------------------------- *)
(* State                                                                   *)
(* ---------------------------------------------------------------------- *)
VARIABLES
  job,        \* the pipeline this run executes: "sales" or "inventory"
  period,     \* <<start_month, end_month>> the query is built for
  pc,         \* "input"/"classified" (one row), "query", "aggregate", "done"
  row,        \* the source row last sent through the query, with its output
  results,    \* GROUP BY accumulation of the query: group -> totals
  cursor,     \* result rows not yet consumed by the aggregator loop
  sales_agg,  \* agg_dict of aggregate_sales_from_snowflake
  inv_agg,    \* agg_dict of aggregate_inventory_from_snowflake
  nrows,      \* number of source rows scanned by the query
  files,      \* the JSON files on disk: output files and the frozen snapshot
  proc,       \* the entry point last invoked, its position and arguments
  snapshot_data,  \* main() of preprocess_inventory: the loaded snapshot
  sales_or_dict,  \* main() of preprocess_inventory: the OR sales mapping
  result,     \* the JSON structure an entry point builds and writes
  fresh,      \* history: result as convert_to_json last returned it
  log,        \* what the entry point last invoked did: queries, messages
  conn,       \* execute_query_batch: the connection, "none"/"open"/"closed"
  batch_size, \* execute_query_batch: its batch_size argument
  rowset,     \* history: the rows of the cursor after execute, in cursor order
  pending,    \* the rows of the cursor not yet fetched
  all_results,  \* execute_query_batch: the rows fetched so far
  ret         \* execute_query_batch: the pending or final return or raise

runvars == <<files, proc, snapshot_data, sales_or_dict, result, fresh, log>>

batchvars == <<conn, batch_size, rowset, pending, all_results, ret>>

vars == <<job, period, pc, row, results, cursor, sales_agg, inv_agg, nrows,
          files, proc, snapshot_data, sales_or_dict, result, fresh, log,
          conn, batch_size, rowset, pending, all_results, ret>>

NoRow == [stage |-> "none"]

EmptyMap == [k \in {} |-> 0]

\* batch_size: int = 10000
DefaultBatchSize == 10000

\* a path that does not exist; None
NoFile == [exists |-> FALSE]

None == [none |-> TRUE]

\* no entry point has been invoked
NoRun ==
  /\ files = [sales |-> NoFile, inventory |-> NoFile, snapshot |-> NoFile]
  /\ proc = [name |-> "none", at |-> "none", path |-> "none"]
  /\ snapshot_data = None
  /\ sales_or_dict = EmptyMap
  /\ result = None
  /\ fresh = None
  /\ log = <<>>

\* execute_query_batch has not been called
NoBatch ==
  /\ conn = "none"
  /\ batch_size = DefaultBatchSize
  /\ rowset = <<>>
  /\ pending = <<>>
  /\ all_results = <<>>
  /\ ret = None

(* ---------------------------------------------------------------------- *)
(* Classification of a single row: the row-level part of each query        *)
(* applied to one source row drawn from the input data.                    *)
(* ---------------------------------------------------------------------- *)
ClassifySaleInputs ==
  [ sale_dt : SaleDates,
    shop : {ShopFR, ShopMoved, ShopUnmapped, ShopOld, ShopTwin}, prdt : ClassifyProducts,
    brd_cd : {"M"}, sesn : SeasonTexts, tag_amt : {Won(1000)} ]

ClassifyStockInputs ==
  [ yymm : StockMonths,
    shop : {ShopFR, ShopHQ, ShopUnmapped, ShopOld, ShopTwin}, prdt : ClassifyProducts,
    brd_cd : {"M"}, sesn : SeasonTexts, stock_tag_amt_expected : {Won(1000)},
    stock_qty_expected : {1} ]

InitClassify ==
  /\ job \in {"sales", "inventory"}
  /\ period = <<FirstMonth, LastMonth>>
  /\ pc = "input"
  /\ \/ job = "sales" /\ \E s \in ClassifySaleInputs :
          row = [stage |-> "input", src |-> s]
     \/ job = "inventory" /\ \E st \in ClassifyStockInputs :
          row = [stage |-> "input", src |-> st]
  /\ results = EmptyMap
  /\ cursor = <<>>
  /\ sales_agg = EmptyMap
  /\ inv_agg = EmptyMap
  /\ nrows = 0
  /\ NoRun
  /\ NoBatch

ClassifySale ==
  /\ job = "sales" /\ pc = "input"
  /\ \E cls \in ShopLatestCls(row.src.shop) :
       row' = [stage |-> "classified", src |-> row.src, fr_or_cls |-> cls,
               out |-> SalesRows(row.src, cls, period[1], period[2])]
  /\ pc' = "classified"
  /\ UNCHANGED <<job, period, results, cursor, sales_agg, inv_agg, nrows>>
  /\ UNCHANGED runvars
  /\ UNCHANGED batchvars

ClassifyStock ==
  /\ job = "inventory" /\ pc = "input"
  /\ \E cls \in ShopLatestCls(row.src.shop) :
       row' = [stage |-> "classified", src |-> row.src, fr_or_cls |-> cls,
               out |-> StockRows(row.src, cls, period[1], period[2])]
  /\ pc' = "classified"
  /\ UNCHANGED <<job, period, results, cursor, sales_agg, inv_agg, nrows>>
  /\ UNCHANGED runvars
  /\ UNCHANGED batchvars

NextClassify == ClassifySale \/ ClassifyStock

SpecClassify == InitClassify /\ [][NextClassify]_vars

(* ---------------------------------------------------------------------- *)
(* A run of one aggregator: the query scans the source rows and groups the *)
(* classified ones (Step 4 of each query); the aggregator then loops over  *)
(* the result rows in ORDER BY order.                                      *)
(* ---------------------------------------------------------------------- *)
\* the periods a query is built for: the analysis period of the full runs
\* (ANALYSIS_MONTHS[0] .. ANALYSIS_MONTHS[-1]) and the widest one
AnalysisPeriod ==
  << <<"2", "0", "2", "4", "0", "1">>, <<"2", "0", "2", "5", "1", "1">> >>

Periods == { AnalysisPeriod, <<FirstMonth, LastMonth>> }

RunDates ==
  { dt \in { Date(2023, 11, 30), Date(2024, 3, 1), Date(2025, 11, 1) } :
      dt.y \in Years }

RunProducts ==
  { Product("A", "Shoes", Text23A, FOCUS), Product("A", "Bag", NULL, NULL),
    Product("B", "Shoes", FOCUS, FOCUS) }

Amounts == {Won(1000), NoNum}

RunSaleInputs ==
  [ sale_dt : RunDates, shop : {ShopFR, ShopOR, ShopHQ, ShopUnmapped},
    prdt : RunProducts, brd_cd : {"M", "X"}, sesn : {Text24A},
    tag_amt : Amounts ]

RunStockInputs ==
  [ yymm : { TO_CHAR_YYYYMM(dt) : dt \in RunDates },
    shop : {ShopFR, ShopOR, ShopHQ, ShopUnmapped},
    prdt : RunProducts, brd_cd : {"M", "X"}, sesn : {Text24A},
    stock_tag_amt_expected : Amounts, stock_qty_expected : {1} ]

\* SQL SUM: NULL inputs are skipped, the sum of no value is NULL
SumAdd(acc, x) ==
  IF x = NoNum THEN acc ELSE IF acc = NoNum THEN x ELSE acc + x

GroupOf(r) == <<r.month, r.brand, r.item_category, r.channel, r.product_type>>

\* GROUP BY month, brand, item category, channel, product_type of the sales
\* query with SUM(tag_amt): the groups after the classified rows are added
SalesGroupBy(res, rows) ==
  [ g \in DOMAIN res \cup {GroupOf(r) : r \in rows} |->
      LET old == IF g \in DOMAIN res THEN res[g] ELSE [total_amount |-> NoNum]
          new == {r \in rows : GroupOf(r) = g}
      IN  IF new = {} THEN old
          ELSE LET r == CHOOSE x \in new : TRUE
               IN  [total_amount |-> SumAdd(old.total_amount, r.amount)] ]

\* GROUP BY of the inventory query with SUM(stock_tag_amt_expected) and
\* SUM(stock_qty_expected)
StockGroupBy(res, rows) ==
  [ g \in DOMAIN res \cup {GroupOf(r) : r \in rows} |->
      LET old == IF g \in DOMAIN res THEN res[g]
                 ELSE [total_amount |-> NoNum, total_qty |-> NoNum]
          new == {r \in rows : GroupOf(r) = g}
      IN  IF new = {} THEN old
          ELSE LET r == CHOOSE x \in new : TRUE
               IN  [total_amount |-> SumAdd(old.total_amount, r.amount),
                    total_qty |-> SumAdd(old.total_qty, r.qty)] ]

\* the code values in string order
CodeOrder ==
  << "Acc_etc", "Bag", "FR", "HQ", "Headwear", "I", "M", "OR", "Shoes", "X",
     "core", "outlet" >>

CodeRank(c) == CHOOSE i \in 1..Len(CodeOrder) : CodeOrder[i] = c

RECURSIVE GroupLess(_, _, _)
\* group a sorts before group b, comparing the columns from position i on
GroupLess(a, b, i) ==
  IF i > 5 THEN FALSE
  ELSE IF a[i] = b[i] THEN GroupLess(a, b, i + 1)
  ELSE IF i = 1 THEN StrLess(a[1], b[1])
  ELSE CodeRank(a[i]) < CodeRank(b[i])

RECURSIVE OrderBy(_)
\* ORDER BY month, brand, item_category, channel, product_type: the result
\* rows in cursor order, each with the upper-case column names of the result
OrderBy(res) ==
  IF DOMAIN res = {} THEN <<>>
  ELSE LET g == CHOOSE x \in DOMAIN res :
                  \A y \in DOMAIN res \ {x} : GroupLess(x, y, 1)
           rest == [h \in DOMAIN res \ {g} |-> res[h]]
       IN  << [MONTH |-> g[1], BRAND |-> g[2], ITEM_CATEGORY |-> g[3],
               CHANNEL |-> g[4], PRODUCT_TYPE |-> g[5], TOTALS |-> res[g]] >>
             \o OrderBy(rest)

Init ==
  /\ job \in {"sales", "inventory"}
  /\ period \in Periods
  /\ pc = "query"
  /\ row = NoRow
  /\ results = EmptyMap
  /\ cursor = <<>>
  /\ sales_agg = EmptyMap
  /\ inv_agg = EmptyMap
  /\ nrows = 0
  /\ NoRun
  /\ NoBatch

\* the sales query reads one more row of CHN.DW_SALE
ScanSale ==
  /\ job = "sales" /\ pc = "query" /\ nrows < MaxRows
  /\ \E s \in RunSaleInputs : \E cls \in ShopLatestCls(s.shop) :
       results' = SalesGroupBy(results, SalesRows(s, cls, period[1], period[2]))
  /\ nrows' = nrows + 1
  /\ UNCHANGED <<job, period, pc, row, cursor, sales_agg, inv_agg>>
  /\ UNCHANGED runvars
  /\ UNCHANGED batchvars

\* the inventory query reads one more row of CHN.DW_STOCK_M
ScanStock ==
  /\ job = "inventory" /\ pc = "query" /\ nrows < MaxRows
  /\ \E st \in RunStockInputs : \E cls \in ShopLatestCls(st.shop) :
       results' = StockGroupBy(results, StockRows(st, cls, period[1], period[2]))
  /\ nrows' = nrows + 1
  /\ UNCHANGED <<job, period, pc, row, cursor, sales_agg, inv_agg>>
  /\ UNCHANGED runvars
  /\ UNCHANGED batchvars

\* results = execute_query_batch(query): the whole result set is returned
ExecuteQuery ==
  /\ pc = "query"
  /\ cursor' = OrderBy(results)
  /\ pc' = "aggregate"
  /\ UNCHANGED <<job, period, row, results, sales_agg, inv_agg, nrows>>
  /\ UNCHANGED runvars
  /\ UNCHANGED batchvars

\* AddTo storing the amount in place of adding it
AddTo_Overwrite(agg, key, amount) ==
  [ k \in DOMAIN agg \cup {key} |->
      IF k = key THEN amount ELSE agg[k] ]

\* agg_dict[key] += amount on a defaultdict(float)
AddTo(agg, key, amount) ==
  [ k \in DOMAIN agg \cup {key} |->
      (IF k \in DOMAIN agg THEN agg[k] ELSE 0) + (IF k = key THEN amount ELSE 0) ]

\* float(row['TOTAL_AMOUNT']) if row['TOTAL_AMOUNT'] else 0.0
AmountOf(total) == IF total = NoNum \/ total = 0 THEN 0 ELSE total

\* SalesChannel mapping every raw channel to FRS
SalesChannel_AllFRS(channel_raw) == "FRS"

\* channel = 'FRS' if channel_raw == 'FR' else channel_raw
SalesChannel(channel_raw) == IF channel_raw = "FR" THEN "FRS" ELSE channel_raw

\* SalesAddTab adding to the umbrella tab only, the category tabs left out
SalesAddTab_UmbrellaOnly(agg, r, item_tab) ==
  LET brand_name == BrandName(r.BRAND)
      month_display == MonthDisplay(r.MONTH)
      amount == IF item_tab = JEONCHE THEN AmountOf(r.TOTALS.total_amount) ELSE 0
      key_total == <<brand_name, item_tab, month_display, JEONCHE, r.PRODUCT_TYPE>>
      key_channel == <<brand_name, item_tab, month_display,
                       SalesChannel(r.CHANNEL), r.PRODUCT_TYPE>>
  IN  AddTo(AddTo(agg, key_total, amount), key_channel, amount)

\* the body of the inner loop of aggregate_sales_from_snowflake for one tab
SalesAddTab(agg, r, item_tab) ==
  LET brand_name == BrandName(r.BRAND)
      month_display == MonthDisplay(r.MONTH)
      amount == AmountOf(r.TOTALS.total_amount)
      key_total == <<brand_name, item_tab, month_display, JEONCHE, r.PRODUCT_TYPE>>
      key_channel == <<brand_name, item_tab, month_display,
                       SalesChannel(r.CHANNEL), r.PRODUCT_TYPE>>
  IN  AddTo(AddTo(agg, key_total, amount), key_channel, amount)

\* for item_tab in ['JEONCHE', item_category]: the loop body for one row
SalesAggregateOne(agg, r) ==
  SalesAddTab(SalesAddTab(agg, r, JEONCHE), r, r.ITEM_CATEGORY)

\* one iteration of "for row in results" of aggregate_sales_from_snowflake
SalesAggregateRow ==
  /\ job = "sales" /\ pc = "aggregate" /\ cursor # <<>>
  /\ sales_agg' = SalesAggregateOne(sales_agg, Head(cursor))
  /\ cursor' = Tail(cursor)
  /\ UNCHANGED <<job, period, pc, row, results, inv_agg, nrows>>
  /\ UNCHANGED runvars
  /\ UNCHANGED batchvars

\* InvChannelBuckets with HQ left out of the company-held bucket
InvChannelBuckets_NoHQ(channel) ==
  <<JEONCHE>> \o (IF channel = "FR" THEN <<"FRS">> ELSE <<>>)
              \o (IF channel \in {"OR"} THEN <<"HQ_OR">> ELSE <<>>)

\* the channel keys one row is added to, in the order of the loop body
InvChannelBuckets(channel) ==
  <<JEONCHE>> \o (IF channel = "FR" THEN <<"FRS">> ELSE <<>>)
              \o (IF channel \in {"HQ", "OR"} THEN <<"HQ_OR">> ELSE <<>>)

RECURSIVE InvAddBuckets(_, _, _, _)
InvAddBuckets(agg, r, item_tab, buckets) ==
  IF buckets = <<>> THEN agg
  ELSE InvAddBuckets(
         AddTo(agg, <<BrandName(r.BRAND), item_tab, MonthDisplay(r.MONTH),
                      Head(buckets), r.PRODUCT_TYPE>>,
               AmountOf(r.TOTALS.total_amount)),
         r, item_tab, Tail(buckets))

\* InvAddTab with the addition to the channel total JEONCHE left out
InvAddTab_NoTotal(agg, r, item_tab) ==
  InvAddBuckets(agg, r, item_tab, Tail(InvChannelBuckets(r.CHANNEL)))

\* the body of the inner loop of aggregate_inventory_from_snowflake
InvAddTab(agg, r, item_tab) ==
  InvAddBuckets(agg, r, item_tab, InvChannelBuckets(r.CHANNEL))

\* for item_tab in ['JEONCHE', item_category]: the loop body for one row
InvAggregateOne(agg, r) ==
  InvAddTab(InvAddTab(agg, r, JEONCHE), r, r.ITEM_CATEGORY)

\* one iteration of "for row in results" of aggregate_inventory_from_snowflake
InvAggregateRow ==
  /\ job = "inventory" /\ pc = "aggregate" /\ cursor # <<>>
  /\ inv_agg' = InvAggregateOne(inv_agg, Head(cursor))
  /\ cursor' = Tail(cursor)
  /\ UNCHANGED <<job, period, pc, row, results, sales_agg, nrows>>
  /\ UNCHANGED runvars
  /\ UNCHANGED batchvars

\* return dict(agg_dict), unexpected_categories
AggregateReturn ==
  /\ pc = "aggregate" /\ cursor = <<>>
  /\ pc' = "done"
  /\ UNCHANGED <<job, period, row, results, cursor, sales_agg, inv_agg, nrows>>
  /\ UNCHANGED runvars
  /\ UNCHANGED batchvars

Next ==
  \/ ScanSale
  \/ ScanStock
  \/ ExecuteQuery
  \/ SalesAggregateRow
  \/ InvAggregateRow
  \/ AggregateReturn

Spec == Init /\ [][Next]_vars

(* ---------------------------------------------------------------------- *)
(* The aggregator loops as functions of the list of result rows, and the   *)
(* same rows fed to the loop body in any order.                            *)
(* ---------------------------------------------------------------------- *)
MaxFeed == 3

RECURSIVE SalesAggregate(_, _)
\* for row in results: ... of aggregate_sales_from_snowflake, from agg on
SalesAggregate(agg, rows) ==
  IF rows = <<>> THEN agg
  ELSE SalesAggregate(SalesAggregateOne(agg, Head(rows)), Tail(rows))

RECURSIVE InvAggregate(_, _)
\* for row in results: ... of aggregate_inventory_from_snowflake
InvAggregate(agg, rows) ==
  IF rows = <<>> THEN agg
  ELSE InvAggregate(InvAggregateOne(agg, Head(rows)), Tail(rows))

ResultRowOf(cat, ch, typ, total) ==
  [MONTH |-> AnalysisPeriod[2], BRAND |-> "M", ITEM_CATEGORY |-> cat,
   CHANNEL |-> ch, PRODUCT_TYPE |-> typ, TOTALS |-> total]

\* result rows of the sales query
FeedSalesRows ==
  { ResultRowOf("Shoes", "FR", "core", [total_amount |-> Won(1000)]),
    ResultRowOf("Shoes", "OR", "core", [total_amount |-> Won(250)]),
    ResultRowOf("Bag", "FR", "core", [total_amount |-> Won(250) + 1]),
    ResultRowOf("Shoes", "FR", "outlet", [total_amount |-> NoNum]) }

\* result rows of the inventory query
FeedStockRows ==
  { ResultRowOf("Shoes", "FR", "core", [total_amount |-> Won(1000), total_qty |-> 1]),
    ResultRowOf("Shoes", "HQ", "core", [total_amount |-> Won(250), total_qty |-> 2]),
    ResultRowOf("Bag", "OR", "core", [total_amount |-> Won(250) + 1, total_qty |-> 1]),
    ResultRowOf("Shoes", "FR", "outlet", [total_amount |-> NoNum, total_qty |-> NoNum]) }

SeqsUpTo(S, n) == UNION { [1..m -> S] : m \in 0..n }

\* the indices of the rows not yet fed
Unfed == (1..Len(cursor)) \ {row.fed[i] : i \in 1..Len(row.fed)}

InitFeed ==
  /\ job \in {"sales", "inventory"}
  /\ period = AnalysisPeriod
  /\ pc = "feed"
  /\ row = [stage |-> "feed", fed |-> <<>>]
  /\ results = EmptyMap
  /\ cursor \in SeqsUpTo(IF job = "sales" THEN FeedSalesRows ELSE FeedStockRows,
                          MaxFeed)
  /\ sales_agg = EmptyMap
  /\ inv_agg = EmptyMap
  /\ nrows = 0
  /\ NoRun
  /\ NoBatch

\* the loop body of the sales aggregator takes any row not yet fed
FeedSale ==
  /\ job = "sales" /\ pc = "feed"
  /\ \E i \in Unfed :
       /\ sales_agg' = SalesAggregateOne(sales_agg, cursor[i])
       /\ row' = [row EXCEPT !.fed = Append(@, i)]
  /\ UNCHANGED <<job, period, pc, results, cursor, inv_agg, nrows>>
  /\ UNCHANGED runvars
  /\ UNCHANGED batchvars

\* the loop body of the inventory aggregator takes any row not yet fed
FeedStock ==
  /\ job = "inventory" /\ pc = "feed"
  /\ \E i \in Unfed :
       /\ inv_agg' = InvAggregateOne(inv_agg, cursor[i])
       /\ row' = [row EXCEPT !.fed = Append(@, i)]
  /\ UNCHANGED <<job, period, pc, results, cursor, sales_agg, nrows>>
  /\ UNCHANGED runvars
  /\ UNCHANGED batchvars

\* every row has been fed: return dict(agg_dict)
FeedReturn ==
  /\ pc = "feed" /\ Unfed = {}
  /\ pc' = "fed"
  /\ UNCHANGED <<job, period, row, results, cursor, sales_agg, inv_agg, nrows>>
  /\ UNCHANGED runvars
  /\ UNCHANGED batchvars

NextFeed == FeedSale \/ FeedStock \/ FeedReturn

SpecFeed == InitFeed /\ [][NextFeed]_vars

(* ---------------------------------------------------------------------- *)
(* The entry points: main() of preprocess_sales and preprocess_inventory   *)
(* and the merge-mode functions, run one after the other over warehouse    *)
(* data that may differ from query to query.  A JSON file is              *)
(* [brands, unexpectedCategories, months (, daysInMonth)] with brands a    *)
(* mapping brand -> item tab -> month -> month record, a month record a    *)
(* mapping <<channel group, op group>> -> amount.                          *)
(* ---------------------------------------------------------------------- *)
\* "2024.01" .. "2025.11"
ANALYSIS_MONTHS ==
  [ i \in 1..23 |->
      MonthDisplay(TO_CHAR_YYYYMM(Date(2024 + ((i - 1) \div 12), ((i - 1) % 12) + 1, 1))) ]

VALID_BRANDS == {"MLB", "MLB KIDS", "DISCOVERY"}

ItemTabs == {JEONCHE, "Shoes", "Headwear", "Bag", "Acc_etc"}

OpGroups == {"core", "outlet"}

Range(seq) == {seq[i] : i \in 1..Len(seq)}

\* agg_dict.get(key, 0)
DictGet(agg, key) == IF key \in DOMAIN agg THEN agg[key] ELSE 0

\* month_data of convert_sales_to_json_structure
SalesMonthData(agg_dict, brand, item_tab, month) ==
  [ f \in {JEONCHE, "FRS", "OR"} \X OpGroups |->
      PyRound(DictGet(agg_dict, <<brand, item_tab, month, f[1], f[2]>>)) ]

convert_sales_to_json_structure(agg_dict) ==
  [ brands |->
      [ brand \in VALID_BRANDS |->
          [ item_tab \in ItemTabs |->
              [ month \in Range(ANALYSIS_MONTHS) |->
                  SalesMonthData(agg_dict, brand, item_tab, month) ] ] ],
    unexpectedCategories |-> <<>>,
    months |-> ANALYSIS_MONTHS ]

\* md of convert_to_json: round(...) on the three inventory fields,
\* sales_or.get(...) as it is on OR_sales
InvMonthData(inv, sales_or, brand, item_tab, month) ==
  [ f \in {JEONCHE, "FRS", "HQ_OR", "OR_sales"} \X OpGroups |->
      IF f[1] = "OR_sales"
      THEN DictGet(sales_or, <<brand, item_tab, month, "OR", f[2]>>)
      ELSE PyRound(DictGet(inv, <<brand, item_tab, month, f[1], f[2]>>)) ]

\* get_days_in_month(int(month[:4]), int(month[5:7]))
DaysOf(month) ==
  get_days_in_month(DigitsValue(SubSeq(month, 1, 4)),
                    DigitsValue(SubSeq(month, 6, 7)))

convert_to_json(inv, sales_or) ==
  [ brands |->
      [ brand \in VALID_BRANDS |->
          [ item_tab \in ItemTabs |->
              [ month \in Range(ANALYSIS_MONTHS) |->
                  InvMonthData(inv, sales_or, brand, item_tab, month) ] ] ],
    unexpectedCategories |-> <<>>,
    months |-> ANALYSIS_MONTHS,
    daysInMonth |-> [ month \in Range(ANALYSIS_MONTHS) |-> DaysOf(month) ] ]

\* the keys of sales_agg_dict with channel == 'OR'
SalesOrOf(sales_agg_dict) ==
  [ k \in {x \in DOMAIN sales_agg_dict : x[4] = "OR"} |-> sales_agg_dict[k] ]

\* SnapshotCutoff one month early
SnapshotCutoff_Early == <<"2", "0", "2", "5", ".", "1", "0">>

\* the literal "2025.11" of the merge
SnapshotCutoff == <<"2", "0", "2", "5", ".", "1", "1">>

RECURSIVE SortStrings(_)
\* sorted(list(S)) for a set of strings
SortStrings(S) ==
  IF S = {} THEN <<>>
  ELSE LET m == CHOOSE x \in S : \A y \in S : StrLeq(x, y)
       IN  <<m>> \o SortStrings(S \ {m})

\* the dict d at key k, an empty dict when d has no key k
SubDict(d, k) == IF k \in DOMAIN d THEN d[k] ELSE EmptyMap

\* MergeMonthRecords with the current record winning where there is one
MergeMonthRecords_FreshWins(cur, snap) ==
  [ month \in DOMAIN cur \cup {m \in DOMAIN snap : StrLeq(m, SnapshotCutoff)} |->
      IF month \in DOMAIN cur THEN cur[month] ELSE snap[month] ]

\* the month records of one brand and item tab after the merge: the
\* snapshot's record for every snapshot month <= "2025.11"
MergeMonthRecords(cur, snap) ==
  [ month \in DOMAIN cur \cup {m \in DOMAIN snap : StrLeq(m, SnapshotCutoff)} |->
      IF month \in DOMAIN snap /\ StrLeq(month, SnapshotCutoff)
      THEN snap[month] ELSE cur[month] ]

\* the loop over snapshot_data["brands"] of main()
MergeBrands(cur, snap) ==
  [ brand \in DOMAIN cur \cup DOMAIN snap |->
      IF brand \notin DOMAIN snap THEN cur[brand]
      ELSE LET cb == SubDict(cur, brand)
               sb == snap[brand]
           IN  [ item_tab \in DOMAIN cb \cup DOMAIN sb |->
                   IF item_tab \notin DOMAIN sb THEN cb[item_tab]
                   ELSE MergeMonthRecords(SubDict(cb, item_tab), sb[item_tab]) ] ]

\* MergeMonths as a concatenation, months in both lists kept twice
MergeMonths_Concat(cur, snap) == snap \o cur

\* sorted(list(snapshot_months | current_months))
MergeMonths(cur, snap) == SortStrings(Range(snap) \cup Range(cur))

\* the loop over snapshot_data["daysInMonth"] of main()
MergeDays(cur, snap) ==
  [ month \in DOMAIN cur \cup {m \in DOMAIN snap : StrLeq(m, SnapshotCutoff)} |->
      IF month \in DOMAIN snap /\ StrLeq(month, SnapshotCutoff)
      THEN snap[month] ELSE cur[month] ]

\* the block "if snapshot_data:" of main(): result after the merge
MergeSnapshot(res, snap) ==
  [ brands |-> MergeBrands(res.brands, snap.brands),
    unexpectedCategories |-> res.unexpectedCategories,
    months |-> MergeMonths(res.months, snap.months),
    daysInMonth |-> MergeDays(res.daysInMonth, snap.daysInMonth) ]

\* if snapshot_data: None and the empty object are false
Truthy(d) == d # None /\ DOMAIN d # {}

(* Warehouse data of the runs: a state of CHN.DW_SALE or CHN.DW_STOCK_M is *)
(* a set of rows; every query of a run sees one of the states.             *)
RunSale(shop, cat, amt) ==
  [ sale_dt |-> Date(2025, 11, 1), shop |-> shop,
    prdt |-> Product("A", cat, FOCUS, FOCUS), brd_cd |-> "M",
    sesn |-> Text24A, tag_amt |-> amt ]

RunStock(shop, cat, amt) ==
  [ yymm |-> AnalysisPeriod[2], shop |-> shop,
    prdt |-> Product("A", cat, FOCUS, FOCUS), brd_cd |-> "M",
    sesn |-> Text24A, stock_tag_amt_expected |-> amt,
    stock_qty_expected |-> 1 ]

\* the sales table as published, then corrected by half a unit, then with
\* another sale
WarehouseSales ==
  { { RunSale(ShopOR, "Shoes", Won(1000)) },
    { RunSale(ShopOR, "Shoes", Won(1000) + 1) },
    { RunSale(ShopOR, "Shoes", Won(1000)), RunSale(ShopFR, "Bag", Won(250)) } }

WarehouseStock ==
  { { RunStock(ShopFR, "Shoes", Won(1000)) },
    { RunStock(ShopFR, "Shoes", Won(250) + 1), RunStock(ShopHQ, "Bag", Won(250)) } }

\* the fr_or_cls the shop master yields for a shop
ClsOf(shop) == CHOOSE c \in ShopLatestCls(shop) : TRUE

RECURSIVE SalesQueryGroups(_, _)
\* the groups of the sales query over the sale rows srcs
SalesQueryGroups(res, srcs) ==
  IF srcs = {} THEN res
  ELSE LET s == CHOOSE x \in srcs : TRUE
       IN  SalesQueryGroups(
             SalesGroupBy(res, SalesRows(s, ClsOf(s.shop), AnalysisPeriod[1],
                                         AnalysisPeriod[2])),
             srcs \ {s})

RECURSIVE StockQueryGroups(_, _)
\* the groups of the inventory query over the stock rows srcs
StockQueryGroups(res, srcs) ==
  IF srcs = {} THEN res
  ELSE LET st == CHOOSE x \in srcs : TRUE
       IN  StockQueryGroups(
             StockGroupBy(res, StockRows(st, ClsOf(st.shop), AnalysisPeriod[1],
                                         AnalysisPeriod[2])),
             srcs \ {st})

\* aggregate_sales_from_snowflake(start_month, end_month) over the table w
aggregate_sales_from_snowflake(w) ==
  SalesAggregate(EmptyMap, OrderBy(SalesQueryGroups(EmptyMap, w)))

\* aggregate_inventory_from_snowflake(start_month, end_month) over w
aggregate_inventory_from_snowflake(w) ==
  InvAggregate(EmptyMap, OrderBy(StockQueryGroups(EmptyMap, w)))

\* the tables the published figures were computed from
PublishedSales == { RunSale(ShopOR, "Shoes", Won(1000)) }

PublishedStock == { RunStock(ShopFR, "Shoes", Won(1000)) }

\* the inventory JSON as published at the cutoff
PublishedInventory ==
  convert_to_json(aggregate_inventory_from_snowflake(PublishedStock),
                  SalesOrOf(aggregate_sales_from_snowflake(PublishedSales)))

LaterMonth == <<"2", "0", "2", "5", ".", "1", "2">>

\* the month record of an inventory JSON with every amount n whole units
FlatMonthData(n) ==
  [ f \in {JEONCHE, "FRS", "HQ_OR", "OR_sales"} \X OpGroups |-> Won(n) ]

\* json with a record for month added to brand MLB, item tab JEONCHE, and
\* month added to the months list and the daysInMonth table
WithMonth(json, month, md) ==
  [ json EXCEPT
      !.brands["MLB"][JEONCHE] =
         [ m \in DOMAIN @ \cup {month} |-> IF m = month THEN md ELSE @[m] ],
      !.months = SortStrings(Range(@) \cup {month}),
      !.daysInMonth =
         [ m \in DOMAIN @ \cup {month} |-> IF m = month THEN DaysOf(month) ELSE @[m] ] ]

\* the frozen snapshot: none, the published JSON, or the published JSON
\* frozen after a later month had been added to it
SnapshotFiles ==
  { NoFile, PublishedInventory,
    WithMonth(PublishedInventory, LaterMonth, FlatMonthData(5)) }

\* the first positions of the entry points that query the warehouse
QueryPositions ==
  {"process_retail_data", "load_sales_or_data", "process_inventory_data"}

scanvars == <<job, period, pc, row, results, cursor, nrows>>

Idle == proc.at \in {"none", "done", "raised", "returned"}

Running(name, at) == proc.name = name /\ proc.at = at

InitRun ==
  /\ job = "entry"
  /\ period = AnalysisPeriod
  /\ pc = "entry"
  /\ row = NoRow
  /\ results = EmptyMap
  /\ cursor = <<>>
  /\ sales_agg = EmptyMap
  /\ inv_agg = EmptyMap
  /\ nrows = 0
  /\ \E snap \in SnapshotFiles :
       \E inv \in {NoFile, snap} :
         \E sal \in {NoFile,
                     convert_sales_to_json_structure(
                       aggregate_sales_from_snowflake(PublishedSales))} :
           files = [sales |-> sal, inventory |-> inv, snapshot |-> snap]
  /\ proc = [name |-> "none", at |-> "none", path |-> "none"]
  /\ snapshot_data = None
  /\ sales_or_dict = EmptyMap
  /\ result = None
  /\ fresh = None
  /\ log = <<>>
  /\ NoBatch

\* python preprocess_sales.py: main() up to the call of process_retail_data
SalesMainStart ==
  /\ Idle
  /\ proc' = [name |-> "sales_main", at |-> "process_retail_data", path |-> "none"]
  /\ sales_agg' = EmptyMap /\ inv_agg' = EmptyMap
  /\ snapshot_data' = None /\ sales_or_dict' = EmptyMap
  /\ result' = None /\ log' = <<>>
  /\ UNCHANGED <<files, fresh>>
  /\ UNCHANGED scanvars
  /\ UNCHANGED batchvars

\* sales_agg_dict, sales_unexpected = process_retail_data(), the query
\* succeeding
SalesMainProcessRetailData ==
  /\ Running("sales_main", "process_retail_data")
  /\ \E w \in WarehouseSales : sales_agg' = aggregate_sales_from_snowflake(w)
  /\ log' = Append(log, <<"query", "process_retail_data">>)
  /\ proc' = [proc EXCEPT !.at = "convert"]
  /\ UNCHANGED <<inv_agg, files, snapshot_data, sales_or_dict, result, fresh>>
  /\ UNCHANGED scanvars
  /\ UNCHANGED batchvars

\* sales_json = convert_sales_to_json_structure(...)
SalesMainConvert ==
  /\ Running("sales_main", "convert")
  /\ result' = convert_sales_to_json_structure(sales_agg)
  /\ proc' = [proc EXCEPT !.at = "write"]
  /\ UNCHANGED <<sales_agg, inv_agg, files, snapshot_data, sales_or_dict, fresh, log>>
  /\ UNCHANGED scanvars
  /\ UNCHANGED batchvars

\* json.dump(sales_json, f) into accessory_sales_summary.json
SalesMainWrite ==
  /\ Running("sales_main", "write")
  /\ files' = [files EXCEPT !.sales = result]
  /\ proc' = [proc EXCEPT !.at = "done"]
  /\ UNCHANGED <<sales_agg, inv_agg, snapshot_data, sales_or_dict, result, fresh, log>>
  /\ UNCHANGED scanvars
  /\ UNCHANGED batchvars

\* python preprocess_inventory.py: main() up to the call of
\* load_sales_or_data, the snapshot loaded when its file exists
InventoryMainStart ==
  /\ Idle
  /\ proc' = [name |-> "inventory_main", at |-> "load_sales_or_data", path |-> "none"]
  /\ snapshot_data' = IF files.snapshot # NoFile THEN files.snapshot ELSE None
  /\ sales_agg' = EmptyMap /\ inv_agg' = EmptyMap
  /\ sales_or_dict' = EmptyMap
  /\ result' = None /\ log' = <<>>
  /\ UNCHANGED <<files, fresh>>
  /\ UNCHANGED scanvars
  /\ UNCHANGED batchvars

\* sales_or_dict = load_sales_or_data(), the query succeeding
InventoryMainLoadSalesOr ==
  /\ Running("inventory_main", "load_sales_or_data")
  /\ \E w \in WarehouseSales :
       /\ sales_agg' = aggregate_sales_from_snowflake(w)
       /\ sales_or_dict' = SalesOrOf(aggregate_sales_from_snowflake(w))
  /\ log' = Append(log, <<"query", "load_sales_or_data">>)
  /\ proc' = [proc EXCEPT !.at = "process_inventory_data"]
  /\ UNCHANGED <<inv_agg, files, snapshot_data, result, fresh>>
  /\ UNCHANGED scanvars
  /\ UNCHANGED batchvars

\* inv_agg, unexpected = process_inventory_data(), the query succeeding
InventoryMainProcessInventory ==
  /\ Running("inventory_main", "process_inventory_data")
  /\ \E w \in WarehouseStock : inv_agg' = aggregate_inventory_from_snowflake(w)
  /\ log' = Append(log, <<"query", "process_inventory_data">>)
  /\ proc' = [proc EXCEPT !.at = "convert"]
  /\ UNCHANGED <<sales_agg, files, snapshot_data, sales_or_dict, result, fresh>>
  /\ UNCHANGED scanvars
  /\ UNCHANGED batchvars

\* result = convert_to_json(inv_agg, sales_or_dict, unexpected)
InventoryMainConvert ==
  /\ Running("inventory_main", "convert")
  /\ result' = convert_to_json(inv_agg, sales_or_dict)
  /\ fresh' = result'
  /\ proc' = [proc EXCEPT !.at = "merge"]
  /\ UNCHANGED <<sales_agg, inv_agg, files, snapshot_data, sales_or_dict, log>>
  /\ UNCHANGED scanvars
  /\ UNCHANGED batchvars

\* if snapshot_data: ... the merge of the snapshot into result
InventoryMainMerge ==
  /\ Running("inventory_main", "merge")
  /\ result' = IF Truthy(snapshot_data) THEN MergeSnapshot(result, snapshot_data)
               ELSE result
  /\ proc' = [proc EXCEPT !.at = "write"]
  /\ UNCHANGED <<sales_agg, inv_agg, files, snapshot_data, sales_or_dict, fresh, log>>
  /\ UNCHANGED scanvars
  /\ UNCHANGED batchvars

\* json.dump(result, f) into accessory_inventory_summary.json
InventoryMainWrite ==
  /\ Running("inventory_main", "write")
  /\ files' = [files EXCEPT !.inventory = result]
  /\ proc' = [proc EXCEPT !.at = "done"]
  /\ UNCHANGED <<sales_agg, inv_agg, snapshot_data, sales_or_dict, result, fresh, log>>
  /\ UNCHANGED scanvars
  /\ UNCHANGED batchvars

\* QueryFails with the query run again after the failure
QueryFails_Retry ==
  /\ proc.name \in {"sales_main", "inventory_main"}
  /\ proc.at \in QueryPositions
  /\ Len(log) < 4
  /\ log' = log \o << <<"query", proc.at>>, <<"raise", "QueryError">> >>
  /\ UNCHANGED <<proc, sales_agg, inv_agg, files, snapshot_data, sales_or_dict,
                 result, fresh>>
  /\ UNCHANGED scanvars
  /\ UNCHANGED batchvars

\* execute_query_batch raises inside the query of a full run: the except
\* clauses print and re-raise, nothing catches it, main() ends
QueryFails ==
  /\ proc.name \in {"sales_main", "inventory_main"}
  /\ proc.at \in QueryPositions
  /\ log' = log \o << <<"query", proc.at>>, <<"raise", "QueryError">> >>
  /\ proc' = [proc EXCEPT !.at = "raised"]
  /\ UNCHANGED <<sales_agg, inv_agg, files, snapshot_data, sales_or_dict, result, fresh>>
  /\ UNCHANGED scanvars
  /\ UNCHANGED batchvars

\* merge_sales_month(months_to_merge, new_retail_path), the whole call:
\* RETAIL_DATA_PATH is no name of the module, and neither is defaultdict
MergeSalesMonth ==
  /\ Idle
  /\ \E path \in {"given", "default"} :
       /\ proc' = [name |-> "merge_sales_month", path |-> path,
                   at |-> IF path = "given" /\ files.sales = NoFile
                          THEN "returned" ELSE "raised"]
       /\ log' = IF path = "default"
                 THEN << <<"raise", "NameError: RETAIL_DATA_PATH">> >>
                 ELSE IF files.sales = NoFile
                 THEN << <<"print", "[ERROR] no existing JSON file">> >>
                 ELSE << <<"raise", "NameError: defaultdict">> >>
       /\ result' = IF path = "given" /\ files.sales # NoFile
                    THEN files.sales ELSE None
  /\ sales_agg' = EmptyMap /\ inv_agg' = EmptyMap
  /\ snapshot_data' = None /\ sales_or_dict' = EmptyMap
  /\ UNCHANGED <<files, fresh>>
  /\ UNCHANGED scanvars
  /\ UNCHANGED batchvars

\* merge_inventory_month(months_to_merge, new_inventory_path), the whole
\* call: INVENTORY_DATA_PATH is no name of the module; with the existing
\* JSON loaded, load_sales_or_data() queries and defaultdict is no name
MergeInventoryMonth ==
  /\ Idle
  /\ \E path \in {"given", "default"} :
       \/ /\ path = "default"
          /\ proc' = [name |-> "merge_inventory_month", path |-> path, at |-> "raised"]
          /\ log' = << <<"raise", "NameError: INVENTORY_DATA_PATH">> >>
          /\ result' = None /\ sales_agg' = EmptyMap /\ sales_or_dict' = EmptyMap
       \/ /\ path = "given" /\ files.inventory = NoFile
          /\ proc' = [name |-> "merge_inventory_month", path |-> path, at |-> "returned"]
          /\ log' = << <<"print", "[ERROR] no existing JSON file">> >>
          /\ result' = None /\ sales_agg' = EmptyMap /\ sales_or_dict' = EmptyMap
       \/ /\ path = "given" /\ files.inventory # NoFile
          /\ proc' = [name |-> "merge_inventory_month", path |-> path, at |-> "raised"]
          /\ result' = files.inventory
          /\ \/ /\ log' = << <<"query", "load_sales_or_data">>,
                             <<"raise", "QueryError">> >>
                /\ sales_agg' = EmptyMap /\ sales_or_dict' = EmptyMap
             \/ /\ log' = << <<"query", "load_sales_or_data">>,
                             <<"raise", "NameError: defaultdict">> >>
                /\ \E w \in WarehouseSales :
                     /\ sales_agg' = aggregate_sales_from_snowflake(w)
                     /\ sales_or_dict' = SalesOrOf(aggregate_sales_from_snowflake(w))
  /\ inv_agg' = EmptyMap /\ snapshot_data' = None
  /\ UNCHANGED <<files, fresh>>
  /\ UNCHANGED scanvars
  /\ UNCHANGED batchvars

NextRun ==
  \/ SalesMainStart
  \/ SalesMainProcessRetailData
  \/ SalesMainConvert
  \/ SalesMainWrite
  \/ InventoryMainStart
  \/ InventoryMainLoadSalesOr
  \/ InventoryMainProcessInventory
  \/ InventoryMainConvert
  \/ InventoryMainMerge
  \/ InventoryMainWrite
  \/ QueryFails
  \/ MergeSalesMonth
  \/ MergeInventoryMonth

SpecRun == InitRun /\ [][NextRun]_vars

(* ---------------------------------------------------------------------- *)
(* execute_query_batch (scripts/snowflake_utils.py): one call, statement   *)
(* by statement.  ret holds the return or the exception from the moment    *)
(* the statement executes; the caller receives it after the finally        *)
(* clause.                                                                 *)
(* ---------------------------------------------------------------------- *)
MaxFetch == 3
MaxBatchSize == 3

\* the first n rows of rows: cursor.fetchmany(n)
FetchMany(rows, n) == SubSeq(rows, 1, Min(n, Len(rows)))

Returning(value) == [kind |-> "return", value |-> value]

Raising(error) == [kind |-> "raise", error |-> error]

InitBatch ==
  /\ job = "batch"
  /\ period = AnalysisPeriod
  /\ pc = "call"
  /\ row = NoRow
  /\ results = EmptyMap
  /\ cursor = <<>>
  /\ sales_agg = EmptyMap
  /\ inv_agg = EmptyMap
  /\ nrows = 0
  /\ NoRun
  /\ conn = "none"
  /\ batch_size \in (1..MaxBatchSize) \cup {DefaultBatchSize}
  /\ rowset \in SeqsUpTo(FeedSalesRows, MaxFetch)
  /\ pending = <<>>
  /\ all_results = <<>>
  /\ ret = None

\* conn = get_snowflake_connection() returns a connection
BatchConnect ==
  /\ pc = "call"
  /\ conn' = "open"
  /\ pc' = "execute"
  /\ UNCHANGED <<batch_size, rowset, pending, all_results, ret>>
  /\ UNCHANGED <<job, period, row, results, cursor, sales_agg, inv_agg, nrows>>
  /\ UNCHANGED runvars

\* get_snowflake_connection() raises ValueError (a required environment
\* variable is missing) or ConnectionError; the except clause prints and
\* re-raises
BatchConnectFails ==
  /\ pc = "call"
  /\ \E e \in {"ValueError", "ConnectionError"} : ret' = Raising(e)
  /\ pc' = "finally"
  /\ UNCHANGED <<conn, batch_size, rowset, pending, all_results>>
  /\ UNCHANGED <<job, period, row, results, cursor, sales_agg, inv_agg, nrows>>
  /\ UNCHANGED runvars

\* cursor = conn.cursor(DictCursor); cursor.execute(query)
BatchExecute ==
  /\ pc = "execute"
  /\ pending' = rowset
  /\ pc' = "fetch"
  /\ UNCHANGED <<conn, batch_size, rowset, all_results, ret>>
  /\ UNCHANGED <<job, period, row, results, cursor, sales_agg, inv_agg, nrows>>
  /\ UNCHANGED runvars

\* conn.cursor or cursor.execute raises; the except clause prints and
\* re-raises
BatchExecuteFails ==
  /\ pc = "execute"
  /\ ret' = Raising("ExecuteError")
  /\ pc' = "finally"
  /\ UNCHANGED <<conn, batch_size, rowset, pending, all_results>>
  /\ UNCHANGED <<job, period, row, results, cursor, sales_agg, inv_agg, nrows>>
  /\ UNCHANGED runvars

\* one iteration of the while loop: an empty batch breaks, the cursor is
\* closed and all_results returned; another batch extends all_results
BatchFetch ==
  /\ pc = "fetch"
  /\ LET batch == FetchMany(pending, batch_size)
     IN  IF batch = <<>>
         THEN /\ ret' = Returning(all_results)
              /\ pc' = "finally"
              /\ UNCHANGED <<pending, all_results>>
         ELSE /\ all_results' = all_results \o batch
              /\ pending' = SubSeq(pending, Len(batch) + 1, Len(pending))
              /\ UNCHANGED <<pc, ret>>
  /\ UNCHANGED <<conn, batch_size, rowset>>
  /\ UNCHANGED <<job, period, row, results, cursor, sales_agg, inv_agg, nrows>>
  /\ UNCHANGED runvars

\* cursor.fetchmany raises; the except clause prints and re-raises
BatchFetchFails ==
  /\ pc = "fetch"
  /\ ret' = Raising("FetchError")
  /\ pc' = "finally"
  /\ UNCHANGED <<conn, batch_size, rowset, pending, all_results>>
  /\ UNCHANGED <<job, period, row, results, cursor, sales_agg, inv_agg, nrows>>
  /\ UNCHANGED runvars

\* BatchFinally closing the connection on the way of a return only
BatchFinally_ReturnOnly ==
  /\ pc = "finally"
  /\ conn' = IF conn = "open" /\ ret.kind = "return" THEN "closed" ELSE conn
  /\ pc' = IF ret.kind = "return" THEN "returned" ELSE "raised"
  /\ UNCHANGED <<batch_size, rowset, pending, all_results, ret>>
  /\ UNCHANGED <<job, period, row, results, cursor, sales_agg, inv_agg, nrows>>
  /\ UNCHANGED runvars

\* finally: if conn: conn.close(); then the return or the raise takes effect
BatchFinally ==
  /\ pc = "finally"
  /\ conn' = IF conn = "open" THEN "closed" ELSE conn
  /\ pc' = IF ret.kind = "return" THEN "returned" ELSE "raised"
  /\ UNCHANGED <<batch_size, rowset, pending, all_results, ret>>
  /\ UNCHANGED <<job, period, row, results, cursor, sales_agg, inv_agg, nrows>>
  /\ UNCHANGED runvars

NextBatch ==
  \/ BatchConnect
  \/ BatchConnectFails
  \/ BatchExecute
  \/ BatchExecuteFails
  \/ BatchFetch
  \/ BatchFetchFails
  \/ BatchFinally

SpecBatch == InitBatch /\ [][NextBatch]_vars

(* ---------------------------------------------------------------------- *)
(* Vocabulary of the properties                                            *)
(* ---------------------------------------------------------------------- *)
Classified == pc = "classified"

\* the event year of the source row, two digits
EventYY ==
  IF job = "sales" THEN row.src.sale_dt.y % 100
  ELSE DigitsValue(SubSeq(row.src.yymm, 1, 4)) % 100

\* the event month of the source row as a month count
EventMonthNo ==
  IF job = "sales" THEN row.src.sale_dt.y * 12 + row.src.sale_dt.m
  ELSE DigitsValue(SubSeq(row.src.yymm, 1, 4)) * 12
         + DigitsValue(SubSeq(row.src.yymm, 5, 6))

InVocabulary(t) == t \in {FOCUS, INTRO, OUTLET, CARE, DONE}

IsBlank(t) == t # NULL /\ \A i \in 1..Len(t) : t[i] = " "

\* positions where two adjacent digits start
DigitPairs(t) == {i \in 1..(Len(t) - 1) : IsDigit(t[i]) /\ IsDigit(t[i + 1])}

\* positions where a run of exactly two digits starts
TwoDigitRuns(t) ==
  {i \in DigitPairs(t) : /\ (i = 1 \/ ~IsDigit(t[i - 1]))
                         /\ (i + 1 = Len(t) \/ ~IsDigit(t[i + 2]))}

\* t carries a two-digit year: its digit pairs are runs of exactly two digits
CarriesYY(t) ==
  t # NULL /\ TwoDigitRuns(t) # {} /\ DigitPairs(t) = TwoDigitRuns(t)

\* the year of the leftmost run of exactly two digits
YYOf(t) ==
  LET i == CHOOSE j \in TwoDigitRuns(t) : \A k \in TwoDigitRuns(t) : j <= k
  IN  10 * DigitVal(t[i]) + DigitVal(t[i + 1])

\* the season-code rule: leading two characters, as a year, >= event year
SeasonRule(sesn, yy) ==
  IF /\ sesn # NULL /\ Len(sesn) >= 2 /\ IsDigit(sesn[1]) /\ IsDigit(sesn[2])
     /\ 10 * DigitVal(sesn[1]) + DigitVal(sesn[2]) >= yy
  THEN "core" ELSE "outlet"

(* ---------------------------------------------------------------------- *)
(* Properties of the classification (SpecClassify)                         *)
(* ---------------------------------------------------------------------- *)

\* C1: in both queries a row whose resolved operational standard is exactly
\* FOCUS or INTRO is core and one whose standard is exactly OUTLET, CARE or
\* DONE is outlet, whatever its event year and season code.
C1_VocabularyDecides ==
  Classified =>
    \A r \in row.out :
      /\ r.op_std \in {FOCUS, INTRO} => r.product_type = "core"
      /\ r.op_std \in {OUTLET, CARE, DONE} => r.product_type = "outlet"

\* a stock row marked DONE whose season code alone would make it core
C1_Witness ==
  /\ Classified /\ job = "inventory"
  /\ \E r \in row.out : r.op_std = DONE /\ r.product_type = "outlet"
  /\ SeasonRule(row.src.sesn, EventYY) = "core"

\* C2: a present, non-vocabulary operational standard that carries a
\* two-digit year YY makes the row core iff YY >= the two-digit event year,
\* whatever the season code.
C2_RemarkYearDecides ==
  Classified =>
    \A r \in row.out :
      (r.op_std # NULL /\ ~InVocabulary(r.op_std) /\ CarriesYY(r.op_std)) =>
        (r.product_type = "core" <=> YYOf(r.op_std) >= EventYY)

\* "23A" in event year 24 gives outlet although the season code is 26S
C2_Witness ==
  /\ Classified /\ job = "sales" /\ EventYY = 24
  /\ row.src.sesn = Text26S
  /\ \E r \in row.out : r.op_std = Text23A /\ r.product_type = "outlet"

\* C3 as stated: a present, non-vocabulary operational standard without two
\* adjacent digits falls through to the season-code rule.
C3_FallsThroughToSeason ==
  Classified =>
    \A r \in row.out :
      (/\ r.op_std # NULL /\ ~IsBlank(r.op_std) /\ ~InVocabulary(r.op_std)
       /\ DigitPairs(r.op_std) = {}) =>
        r.product_type = SeasonRule(row.src.sesn, EventYY)

\* C3 amended: a present, non-vocabulary operational standard without two
\* adjacent digits makes the row outlet, whatever the season code.
C3_NoYearIsOutlet ==
  Classified =>
    \A r \in row.out :
      (/\ r.op_std # NULL /\ ~IsBlank(r.op_std) /\ ~InVocabulary(r.op_std)
       /\ DigitPairs(r.op_std) = {}) =>
        r.product_type = "outlet"

\* "NEW" is outlet although the season-code rule would give core
C3_Witness ==
  /\ Classified
  /\ \E r \in row.out : r.op_std = <<"N", "E", "W">> /\ r.product_type = "outlet"
  /\ SeasonRule(row.src.sesn, EventYY) = "core"

\* C4: with the resolved operational standard absent, the row is core iff
\* the leading two characters of the season code parse to a number >= the
\* two-digit event year, and outlet otherwise (season missing or unparseable
\* included).
C4_SeasonFallback ==
  Classified =>
    \A r \in row.out :
      r.op_std = NULL => r.product_type = SeasonRule(row.src.sesn, EventYY)

\* season 24A in event year 24 with no operational standard gives core
C4_Witness ==
  /\ Classified /\ EventYY = 24 /\ row.src.sesn = Text24A
  /\ \E r \in row.out : r.op_std = NULL /\ r.product_type = "core"

\* slot = floor(months_since_epoch / 3) + 1
SlotFrom(epochNo, monthNo) == ((monthNo - epochNo) \div 3) + 1

\* the first month of the first window of each query, as a month count
SalesEpochNo == 2024 * 12 + 1
StockEpochNo == 2023 * 12 + 12

\* the slot of the 3-month window the event falls in, windows counted from
\* the first window of the pipeline at hand
PipelineSlot ==
  SlotFrom(IF job = "sales" THEN SalesEpochNo ELSE StockEpochNo, EventMonthNo)

SelectedRemark ==
  IF PipelineSlot \in 1..15 THEN row.src.prdt.remark[PipelineSlot] ELSE NULL

\* C5: an empty or blank remark in the selected slot is treated like an
\* absent one in both pipelines: the season-code fallback decides.
C5_EmptyAsAbsent ==
  Classified =>
    \A r \in row.out :
      IsBlank(SelectedRemark) => r.product_type = SeasonRule(row.src.sesn, EventYY)

\* the stock row that matches a sale row: same product, shop, brand, season
\* and month
StockRowOf(s) ==
  [ yymm |-> TO_CHAR_YYYYMM(s.sale_dt), shop |-> s.shop, prdt |-> s.prdt,
    brd_cd |-> s.brd_cd, sesn |-> s.sesn,
    stock_tag_amt_expected |-> s.tag_amt, stock_qty_expected |-> 1 ]

\* C7: a sale row and the stock row of the same product and month select the
\* same remark slot and receive the same classification (stated here for the
\* products none of whose remark columns is blank).
C7_PipelinesAgree ==
  (/\ Classified /\ job = "sales"
   /\ \A i \in 1..15 : ~IsBlank(row.src.prdt.remark[i])) =>
    \A r \in row.out :
      \A q \in StockRows(StockRowOf(row.src), row.fr_or_cls, period[1], period[2]) :
        /\ r.product_type = q.product_type
        /\ r.remark_idx # NoNum => r.remark_idx = q.remark_idx

\* slot = floor(months_since_epoch / 3) + 1, the epoch being 2023.12, the
\* month the source names as the start of remark1
EpochSlot == SlotFrom(StockEpochNo, EventMonthNo)

\* C8: slot selection follows 3-month windows counted from one fixed epoch:
\* every row that selects a remark selects the one of slot
\* floor(months_since_epoch / 3) + 1, so that a window's first month maps to
\* that window and the month before to the previous one.
C8_OneEpochSlot ==
  Classified =>
    \A r \in row.out :
      (r.op_std # NULL \/ r.remark_idx # NoNum) => r.remark_idx = EpochSlot

(* ---------------------------------------------------------------------- *)
(* Properties of the aggregators (Spec)                                    *)
(* ---------------------------------------------------------------------- *)
\* the month count of a display month "YYYY.MM"
DisplayMonthNo(month_display) ==
  DigitsValue(SubSeq(month_display, 1, 4)) * 12
    + DigitsValue(SubSeq(month_display, 6, 7))

Get(agg, k) == IF k \in DOMAIN agg THEN agg[k] ELSE 0

\* C6: a sale or stock row whose event time yields a slot index outside
\* 1..15 adds nothing to any aggregation key: no key of either mapping
\* carries a month outside the fifteen windows of its pipeline.
C6_OutOfWindowDropped ==
  /\ \A k \in DOMAIN sales_agg :
       SlotFrom(SalesEpochNo, DisplayMonthNo(k[3])) \in 1..15
  /\ \A k \in DOMAIN inv_agg :
       SlotFrom(StockEpochNo, DisplayMonthNo(k[3])) \in 1..15

Month202511 == <<"2", "0", "2", "5", ".", "1", "1">>

\* the amount of a result row, a NULL total counting as zero
RowAmount(r) ==
  IF r.TOTALS.total_amount = NoNum THEN 0 ELSE r.TOTALS.total_amount

\* the keys a sales result row is to be added to
C9_Keys(r) ==
  { <<BrandName(r.BRAND), tab, MonthDisplay(r.MONTH), ch, r.PRODUCT_TYPE>> :
      tab \in {JEONCHE, r.ITEM_CATEGORY},
      ch \in {JEONCHE, IF r.CHANNEL = "FR" THEN "FRS" ELSE "OR"} }

C9_Step ==
  (job = "sales" /\ pc = "aggregate" /\ cursor # <<>> /\ cursor' = Tail(cursor)) =>
    LET r == Head(cursor)
    IN  /\ r.CHANNEL \in {"FR", "OR"}
        /\ DOMAIN sales_agg' = DOMAIN sales_agg \cup C9_Keys(r)
        /\ \A k \in DOMAIN sales_agg' :
             sales_agg'[k] = Get(sales_agg, k)
               + (IF k \in C9_Keys(r) THEN RowAmount(r) ELSE 0)

C9_ScenarioResult ==
  [ k \in { <<"MLB", tab, Month202511, ch, "core">> :
              tab \in {JEONCHE, "Shoes"}, ch \in {JEONCHE, "FRS"} } |-> Won(1000) ]

C9_Scenario ==
  (/\ job = "sales" /\ pc = "done"
   /\ DOMAIN results = { <<<<"2", "0", "2", "5", "1", "1">>, "M", "Shoes", "FR", "core">> }
   /\ \A g \in DOMAIN results : results[g].total_amount = Won(1000)) =>
    sales_agg = C9_ScenarioResult

\* C9: the sales aggregator adds the amount of every FR result row to the
\* channel buckets FRS and JEONCHE only and that of every OR row to OR and
\* JEONCHE only, under the item tab JEONCHE and the row's category tab; one
\* FR row (M, Shoes, core, 2025.11, 1000) yields exactly the four keys
\* (MLB, JEONCHE|Shoes, 2025.11, JEONCHE|FRS, core) = 1000.
C9_SalesChannelBuckets == [][C9_Step]_vars /\ []C9_Scenario

\* the scenario has run: four keys of 1000, none in an OR bucket
C9_Witness ==
  /\ job = "sales" /\ pc = "done" /\ nrows = 1
  /\ sales_agg = C9_ScenarioResult
  /\ \A k \in DOMAIN sales_agg : k[4] # "OR"

\* the keys an inventory result row is to be added to
C10_Keys(r) ==
  { <<BrandName(r.BRAND), tab, MonthDisplay(r.MONTH), ch, r.PRODUCT_TYPE>> :
      tab \in {JEONCHE, r.ITEM_CATEGORY},
      ch \in {JEONCHE, IF r.CHANNEL = "FR" THEN "FRS" ELSE "HQ_OR"} }

C10_Step ==
  (job = "inventory" /\ pc = "aggregate" /\ cursor # <<>>
   /\ cursor' = Tail(cursor)) =>
    LET r == Head(cursor)
    IN  /\ r.CHANNEL \in {"FR", "OR", "HQ"}
        /\ DOMAIN inv_agg' = DOMAIN inv_agg \cup C10_Keys(r)
        /\ \A k \in DOMAIN inv_agg' :
             inv_agg'[k] = Get(inv_agg, k)
               + (IF k \in C10_Keys(r) THEN RowAmount(r) ELSE 0)
        /\ \A tab \in {JEONCHE, r.ITEM_CATEGORY} :
             RowAmount(r) > 0 =>
             Cardinality({k \in DOMAIN inv_agg' :
                            k[2] = tab /\ inv_agg'[k] # Get(inv_agg, k)}) = 2

\* C10: the inventory aggregator adds the amount of every result row to the
\* channel bucket JEONCHE, that of an FR row also to FRS and never to HQ_OR,
\* that of an OR or HQ row also to HQ_OR and never to FRS: two channel
\* buckets per item tab.
C10_InventoryChannelBuckets == [][C10_Step]_vars

\* an HQ row alone has been aggregated: HQ_OR and JEONCHE hold its amount
C10_Witness ==
  /\ job = "inventory" /\ pc = "done"
  /\ DOMAIN results # {} /\ \A g \in DOMAIN results : g[4] = "HQ"
  /\ \E k \in DOMAIN inv_agg : k[4] = "HQ_OR" /\ inv_agg[k] > 0
  /\ \A k \in DOMAIN inv_agg : k[4] # "FRS"

(* ---------------------------------------------------------------------- *)
(* Properties of the aggregation result (Spec)                             *)
(* ---------------------------------------------------------------------- *)
ItemCategories == {"Shoes", "Headwear", "Bag", "Acc_etc"}

\* the key of an aggregation key k under item tab tab
WithTab(k, tab) == <<k[1], tab, k[3], k[4], k[5]>>

\* the total over the four category tabs for the brand, month, channel
\* bucket and classification of key k
CategorySum(agg, k) ==
  Get(agg, WithTab(k, "Shoes")) + Get(agg, WithTab(k, "Headwear"))
    + Get(agg, WithTab(k, "Bag")) + Get(agg, WithTab(k, "Acc_etc"))

UmbrellaIsSum(agg) ==
  \A k \in DOMAIN agg : Get(agg, WithTab(k, JEONCHE)) = CategorySum(agg, k)

\* C11: after any number of result rows has been aggregated, sales or
\* inventory, the value under the umbrella item tab JEONCHE equals, for
\* every brand, month, channel bucket and classification, the sum of the
\* values under the four category tabs, absent keys counting as zero.
C11_UmbrellaIsCategorySum ==
  UmbrellaIsSum(sales_agg) /\ UmbrellaIsSum(inv_agg)

\* two rows of different categories met in one umbrella key
C11_Witness ==
  /\ pc = "done"
  /\ \E k \in DOMAIN sales_agg \cup DOMAIN inv_agg :
       LET agg == IF job = "sales" THEN sales_agg ELSE inv_agg
       IN  /\ k[2] = JEONCHE
           /\ Get(agg, WithTab(k, "Shoes")) > 0
           /\ Get(agg, WithTab(k, "Bag")) > 0
           /\ agg[k] = Get(agg, WithTab(k, "Shoes")) + Get(agg, WithTab(k, "Bag"))

\* the quantity the result of aggregate_inventory_from_snowflake holds for
\* key k: the mapping holds one float per key, the amount, and the qty read
\* from the row is stored nowhere
ResultQty(agg, k) == NoNum

RECURSIVE QtySum(_, _)
\* the summed quantity of the groups gs of the query result
QtySum(res, gs) ==
  IF gs = {} THEN 0
  ELSE LET g == CHOOSE x \in gs : TRUE
       IN  (IF res[g].total_qty = NoNum THEN 0 ELSE res[g].total_qty)
             + QtySum(res, gs \ {g})

\* the result row of group g
ResultRow(res, g) ==
  [MONTH |-> g[1], BRAND |-> g[2], ITEM_CATEGORY |-> g[3], CHANNEL |-> g[4],
   PRODUCT_TYPE |-> g[5], TOTALS |-> res[g]]

\* C12: the result of the inventory aggregator makes available, for every
\* aggregation key, the summed stock quantity of the result rows that
\* contribute to the key.
C12_QuantityAccumulated ==
  (job = "inventory" /\ pc = "done") =>
    \A k \in DOMAIN inv_agg :
      ResultQty(inv_agg, k) =
        QtySum(results, {g \in DOMAIN results : k \in C10_Keys(ResultRow(results, g))})

(* ---------------------------------------------------------------------- *)
(* Properties of the accumulation (SpecFeed)                               *)
(* ---------------------------------------------------------------------- *)
\* the keys result row r contributes to
KeysOf(r) == IF job = "sales" THEN C9_Keys(r) ELSE C10_Keys(r)

RECURSIVE ContributionSum(_, _)
\* the amounts of the rows of the list rows that contribute to key k
ContributionSum(rows, k) ==
  IF rows = <<>> THEN 0
  ELSE (IF k \in KeysOf(Head(rows)) THEN RowAmount(Head(rows)) ELSE 0)
         + ContributionSum(Tail(rows), k)

\* C20: whatever the order in which the rows of a list of result rows are
\* fed to the accumulation, the mapping is the one the loop yields in list
\* order, and every key holds the sum of the amounts of the contributing
\* rows, each occurrence of a repeated row counted.
C20_OrderIndependent ==
  pc = "fed" =>
    LET agg == IF job = "sales" THEN sales_agg ELSE inv_agg
        in_order == IF job = "sales" THEN SalesAggregate(EmptyMap, cursor)
                    ELSE InvAggregate(EmptyMap, cursor)
    IN  /\ agg = in_order
        /\ DOMAIN agg = UNION { KeysOf(cursor[i]) : i \in 1..Len(cursor) }
        /\ \A k \in DOMAIN agg : agg[k] = ContributionSum(cursor, k)

\* a row given twice and another row, fed last to first: the keys of the
\* repeated row hold at least twice its amount
C20_Witness ==
  /\ pc = "fed" /\ Len(cursor) = 3 /\ row.fed = <<3, 2, 1>>
  /\ cursor[1] = cursor[3] /\ cursor[2] # cursor[1]
  /\ RowAmount(cursor[1]) > 0 /\ RowAmount(cursor[2]) > 0
  /\ LET agg == IF job = "sales" THEN sales_agg ELSE inv_agg
     IN  \A k \in KeysOf(cursor[1]) :
           agg[k] = 2 * RowAmount(cursor[1])
                      + (IF k \in KeysOf(cursor[2]) THEN RowAmount(cursor[2]) ELSE 0)

(* ---------------------------------------------------------------------- *)
(* Properties of the entry points (SpecRun)                                *)
(* ---------------------------------------------------------------------- *)
\* the <<brand, item tab, month>> of the month records of a JSON structure
Triples(json) ==
  UNION { UNION { { <<b, t, m>> : m \in DOMAIN json.brands[b][t] } :
                  t \in DOMAIN json.brands[b] } : b \in DOMAIN json.brands }

\* json has a month record at x = <<brand, item tab, month>>
Has(json, x) ==
  /\ x[1] \in DOMAIN json.brands
  /\ x[2] \in DOMAIN json.brands[x[1]]
  /\ x[3] \in DOMAIN json.brands[x[1]][x[2]]

\* the month record of json at x = <<brand, item tab, month>>
Rec(json, x) == json.brands[x[1]][x[2]][x[3]]

\* month is the cutoff month 2025.11 or an earlier one
AtOrBeforeCutoff(month) == DisplayMonthNo(month) <= DisplayMonthNo(Month202511)

\* every amount of the file is a whole number of currency units
AllWhole(file) ==
  file = NoFile \/
    \A x \in Triples(file) : \A f \in DOMAIN Rec(file, x) :
      Rec(file, x)[f] % Scale = 0

\* the total the inventory field f of month record x is computed from
InvTotal(x, f) ==
  IF f[1] = "OR_sales"
  THEN DictGet(sales_or_dict, <<x[1], x[2], x[3], "OR", f[2]>>)
  ELSE DictGet(inv_agg, <<x[1], x[2], x[3], f[1], f[2]>>)

\* C13: every amount field of a month record handed to the writer (the
\* sales fields JEONCHE_*, FRS_*, OR_* and the inventory fields JEONCHE_*,
\* FRS_*, HQ_OR_*, OR_sales_*) is the accumulated total rounded once to a
\* whole currency unit, and no output file holds an amount that is not whole.
C13_RoundedAtSerialization ==
  /\ Running("sales_main", "write") =>
       \A x \in Triples(result) : \A f \in DOMAIN Rec(result, x) :
         Rec(result, x)[f] =
           PyRound(DictGet(sales_agg, <<x[1], x[2], x[3], f[1], f[2]>>))
  /\ Running("inventory_main", "merge") =>
       \A x \in Triples(result) : \A f \in DOMAIN Rec(result, x) :
         Rec(result, x)[f] = PyRound(InvTotal(x, f))
  /\ AllWhole(files.sales)
  /\ AllWhole(files.inventory)

\* the inventory run has merged the snapshot into result
Merged == Running("inventory_main", "write") /\ Truthy(snapshot_data)

\* C14: after the snapshot merge of the inventory full run, every month
\* record of the snapshot with month <= 2025.11 is the merged record,
\* whatever the fresh record is, and for a month after 2025.11 the merged
\* record is the fresh one: present only if fresh has it, never the
\* snapshot's.
C14_SnapshotWinsUpToCutoff ==
  Merged =>
    /\ \A x \in Triples(snapshot_data) :
         AtOrBeforeCutoff(x[3]) =>
           Has(result, x) /\ Rec(result, x) = Rec(snapshot_data, x)
    /\ \A x \in Triples(snapshot_data) \cup Triples(result) \cup Triples(fresh) :
         ~AtOrBeforeCutoff(x[3]) =>
           /\ Has(result, x) <=> Has(fresh, x)
           /\ Has(result, x) => Rec(result, x) = Rec(fresh, x)

\* the snapshot's 2025.11 record replaced a different fresh one and its
\* 2025.12 record was left out
C14_Witness ==
  /\ Merged
  /\ LET x == <<"MLB", JEONCHE, Month202511>>
         y == <<"MLB", JEONCHE, LaterMonth>>
     IN  /\ Rec(fresh, x) # Rec(snapshot_data, x)
         /\ Rec(result, x) = Rec(snapshot_data, x)
         /\ Has(snapshot_data, y) /\ ~Has(result, y)

\* C15: when the fresh result equals the snapshot, whose greatest month is
\* the cutoff, the merged result equals the snapshot in brands, months and
\* daysInMonth, and merging the snapshot into the merged result again
\* changes nothing.
C15_MergeIdempotent ==
  (Merged /\ fresh = snapshot_data) =>
    /\ result.brands = snapshot_data.brands
    /\ result.months = snapshot_data.months
    /\ result.daysInMonth = snapshot_data.daysInMonth
    /\ MergeSnapshot(result, snapshot_data) = result
    /\ MergeSnapshot(result, result) = result

\* a run over unchanged warehouse data with the published JSON as snapshot
C15_Witness ==
  /\ Merged /\ fresh = snapshot_data /\ result = snapshot_data
  /\ snapshot_data.months[Len(snapshot_data.months)] = Month202511
  /\ \E x \in Triples(result) : \E f \in DOMAIN Rec(result, x) :
       Rec(result, x)[f] > 0

\* C16: the merged months list and daysInMonth table take an entry of the
\* snapshot only when its month <= 2025.11; a month after 2025.11 is in
\* either only if the fresh computation provides it.
C16_SideTablesSamePrecedence ==
  Merged =>
    /\ \A m \in Range(result.months) :
         \/ m \in Range(fresh.months)
         \/ m \in Range(snapshot_data.months) /\ AtOrBeforeCutoff(m)
    /\ \A m \in DOMAIN result.daysInMonth :
         \/ m \in DOMAIN fresh.daysInMonth
         \/ m \in DOMAIN snapshot_data.daysInMonth /\ AtOrBeforeCutoff(m)
    /\ \A m \in DOMAIN snapshot_data.daysInMonth :
         AtOrBeforeCutoff(m) =>
           /\ m \in DOMAIN result.daysInMonth
           /\ result.daysInMonth[m] = snapshot_data.daysInMonth[m]

Count(e) == Cardinality({i \in 1..Len(log) : log[i] = e})

C18_Step ==
  /\ (proc.at \in QueryPositions /\ <<"raise", "QueryError">> \in Range(log')) =>
       /\ files' = files
       /\ proc' = [proc EXCEPT !.at = "raised"]
       /\ log' = log \o << <<"query", proc.at>>, <<"raise", "QueryError">> >>
       /\ Count(<<"query", proc.at>>) = 0
  /\ (proc.name \in {"sales_main", "inventory_main"} /\ proc.at = "raised") =>
       /\ files' = files
       /\ proc'.at \notin {"convert", "merge", "write", "done"}
       /\ ~(Len(log') > Len(log) /\ SubSeq(log', 1, Len(log)) = log)

\* C18: when a warehouse query of a full run fails, the run ends there with
\* the error: the output files are as before, the failed query has been
\* issued once, and the run takes no further step.
C18_FailFast == [][C18_Step]_vars

\* the inventory query of an inventory run failed after the OR sales query
\* had succeeded: no inventory file exists
C18_Witness ==
  /\ proc.name = "inventory_main" /\ proc.at = "raised"
  /\ log = << <<"query", "load_sales_or_data">>,
              <<"query", "process_inventory_data">>, <<"raise", "QueryError">> >>
  /\ files.inventory = NoFile
  /\ sales_or_dict # EmptyMap /\ result = None

\* C19: a merge-mode call made while the existing output JSON is missing
\* reports the missing file and returns: no query, no exception, no file.
C19_MissingOutputReported ==
  /\ (proc.name = "merge_sales_month" /\ files.sales = NoFile) =>
       proc.at = "returned" /\ log = << <<"print", "[ERROR] no existing JSON file">> >>
  /\ (proc.name = "merge_inventory_month" /\ files.inventory = NoFile) =>
       proc.at = "returned" /\ log = << <<"print", "[ERROR] no existing JSON file">> >>

(* ---------------------------------------------------------------------- *)
(* Properties of the shop master (SpecClassify)                            *)
(* ---------------------------------------------------------------------- *)
\* the rank of an open date when a missing one is the earliest possible date
EarliestWhenMissing(open_dt) == IF open_dt = NoNum THEN 0 ELSE open_dt

\* the channels of the mappings of a shop that carry the latest open date
LatestMappingCls(maps) ==
  LET cands == {r \in maps : r.fr_or_cls # NullCode}
  IN  { r.fr_or_cls : r \in {x \in cands : \A q \in cands :
          EarliestWhenMissing(x.open_dt) >= EarliestWhenMissing(q.open_dt)} }

\* C21: the channel applied to a row is that of a mapping of its shop with
\* the latest open date, a missing open date ranking as the earliest possible
\* date; a row whose shop has no channel classification yields no classified
\* row, and neither does a sales row whose shop resolves to HQ
C21_LatestMappingDecides ==
  pc = "classified" =>
    /\ LatestMappingCls(row.src.shop) # {}
          => row.fr_or_cls \in LatestMappingCls(row.src.shop)
    /\ LatestMappingCls(row.src.shop) = {} => row.out = {}
    /\ (job = "sales" /\ row.fr_or_cls = "HQ") => row.out = {}

(* ---------------------------------------------------------------------- *)
(* Properties of the year extraction (SpecClassify)                        *)
(* ---------------------------------------------------------------------- *)
\* the leftmost run of exactly two digits of t, NULL when there is none
FirstExactRun(t) ==
  IF t = NULL \/ TwoDigitRuns(t) = {} THEN NULL
  ELSE LET i == CHOOSE j \in TwoDigitRuns(t) : \A k \in TwoDigitRuns(t) : j <= k
       IN  SubSeq(t, i, i + 1)

\* C22: the year of a non-vocabulary operational-standard string is its
\* leftmost run of exactly two digits, a run of three or more digits
\* supplying no year: the row is core exactly when that year is at least the
\* year of the row
C22_ExactTwoDigitRun ==
  pc = "classified" =>
    \A r \in row.out :
      (r.op_std # NULL /\ ~InVocabulary(r.op_std)) =>
        (r.product_type = "core"
           <=> NumGeq(TRY_TO_NUMBER(FirstExactRun(r.op_std)),
                      TRY_TO_NUMBER(r.row_yy)))

(* ---------------------------------------------------------------------- *)
(* Properties of the channel buckets (Spec)                                *)
(* ---------------------------------------------------------------------- *)
\* the key of an aggregation key k under channel bucket ch
WithChannel(k, ch) == <<k[1], k[2], k[3], ch, k[5]>>

\* C23: after any number of result rows has been aggregated, for every
\* brand, item tab, month and classification the unrounded value of the
\* channel bucket JEONCHE equals the sum of the specific buckets: FRS + OR
\* for sales, FRS + HQ_OR for inventory, absent keys counting as zero.
C23_ChannelTotalIsSum ==
  /\ \A k \in DOMAIN sales_agg :
       Get(sales_agg, WithChannel(k, JEONCHE))
         = Get(sales_agg, WithChannel(k, "FRS")) + Get(sales_agg, WithChannel(k, "OR"))
  /\ \A k \in DOMAIN inv_agg :
       Get(inv_agg, WithChannel(k, JEONCHE))
         = Get(inv_agg, WithChannel(k, "FRS")) + Get(inv_agg, WithChannel(k, "HQ_OR"))

\* an inventory run whose rows reached both specific buckets of one key
C23_Witness ==
  /\ job = "inventory" /\ pc = "done"
  /\ \E k \in DOMAIN inv_agg :
       /\ k[4] = JEONCHE
       /\ Get(inv_agg, WithChannel(k, "FRS")) > 0
       /\ Get(inv_agg, WithChannel(k, "HQ_OR")) > 0
       /\ inv_agg[k] = Get(inv_agg, WithChannel(k, "FRS"))
                         + Get(inv_agg, WithChannel(k, "HQ_OR"))

(* ---------------------------------------------------------------------- *)
(* Properties of the merge mode (SpecRun)                                  *)
(* ---------------------------------------------------------------------- *)
\* the call last made ended with the exception e
Raised(e) == log # <<>> /\ log[Len(log)] = <<"raise", e>>

\* C24: a merge-mode call made while the existing output JSON exists runs
\* to completion: unless the warehouse query itself fails, the call returns
\* and raises no exception.
C24_LegacyMergeCompletes ==
  /\ (proc.name = "merge_sales_month" /\ files.sales # NoFile) =>
       proc.at = "returned"
  /\ (proc.name = "merge_inventory_month" /\ files.inventory # NoFile
        /\ ~Raised("QueryError")) =>
       proc.at = "returned"

(* ---------------------------------------------------------------------- *)
(* Properties of execute_query_batch (SpecBatch)                           *)
(* ---------------------------------------------------------------------- *)
\* C25: when execute_query_batch returns or raises, a connection that was
\* opened has been closed; a return hands the caller every row of the
\* cursor in cursor order, whatever the batch size; a raise hands the
\* caller no row, also after some batches were fetched.
C25_ClosedAndComplete ==
  /\ conn = "open" => pc \in {"execute", "fetch", "finally"}
  /\ pc \in {"returned", "raised"} => conn \in {"none", "closed"}
  /\ pc = "returned" => conn = "closed" /\ ret = Returning(rowset)
  /\ pc = "raised" => ret \in {Raising(e) : e \in {"ValueError", "ConnectionError",
                                                  "ExecuteError", "FetchError"}}
  /\ pc = "raised" /\ ret.error \in {"ExecuteError", "FetchError"} => conn = "closed"

\* a fetch failed after a first batch had been fetched: the call raised
\* with the connection closed
C25_Witness ==
  /\ pc = "raised" /\ conn = "closed"
  /\ ret = Raising("FetchError")
  /\ all_results # <<>> /\ pending # <<>>

============================================================================
